---------------------------- MODULE Spec2Model ----------------------------
(***************************************************************************)
(* A model of the negative-risk arbitrage engines of go-clob-client:       *)
(*   - the websocket engine  (examples/arbitrage_bot_sockets)              *)
(*   - the polling engine    (examples/arbitrage_bot_polling)              *)
(*                                                                         *)
(* Prices and dollar amounts are integers in thousandths of a dollar.      *)
(* Every specification below shares the variables of the module; the       *)
(* variables a specification does not use keep their initial value.        *)
(***************************************************************************)
EXTENDS Integers, Sequences, FiniteSets, TLC

VARIABLES
    \* ---- MarketCache (websocket engine) --------------------------------
    data,          \* MarketCache.data: token -> quote (exists, BestAsk)
    latest,        \* history: the value of the latest Update per key
    task,          \* per cache client task: its last Update and last Get
    \* ---- polling engine ------------------------------------------------
    config,        \* BotConfig fields the engines read
    marketData,    \* Model.marketData: token -> quote
    econ,          \* result of one standalone evaluation (pure function run)
    activeOrders,  \* Model.activeOrders: set of market names stored true
    polls,         \* number of polls issued so far
    checker,       \* checkAllMarketsForArbitrage goroutines, one per poll
    exec,          \* executeArbitrageParallel goroutines
    totalPnL,      \* Stats.totalPnL
    posted,        \* orders accepted by the exchange
    \* ---- websocket engine: feed and taker strategy ---------------------
    arbTrigger,    \* ArbBot.arbTrigger: buffered channel of token ids
    handler,       \* the feed read loop: idle, or running the handler
    worker,        \* runTakerArb goroutines, one per (market, worker index)
    spawned,       \* goroutines started by "go checkArbitrage()"
    cancelled,     \* bot.ctx is done
    \* ---- websocket engine: maker-taker strategy ------------------------
    activeBids,    \* ArbBot.activeBids[market]: outcome -> resting bid
    orders,        \* exchange side: status of every order id issued
    mt,            \* runMakerTakerArb goroutine of the market
    unswept,       \* history: fills not yet swept, with cycles survived
    \* ---- websocket engine: market data service -------------------------
    wsClient,      \* the feed connection startMarketDataUpdater holds
    updater,       \* startMarketDataUpdater: keep-alive loop or fallback poller
    verifier,      \* verifyEmptyBooks goroutine
    stale,         \* history: tokens with no update for the staleness window
    \* ---- client library (pkg/client) -----------------------------------
    client,        \* ClobClient: signer, creds, mode, tickSizes
    call           \* the last client operation called and what it returned

cacheVars == <<data, latest, task>>
pollVars  == <<marketData, econ, activeOrders, polls, checker, exec, totalPnL, posted>>
feedVars  == <<arbTrigger, handler, worker, spawned, cancelled>>
mtVars    == <<activeBids, orders, mt, unswept>>
svcVars   == <<wsClient, updater, verifier, stale>>
cliVars   == <<client, call>>
vars      == <<cacheVars, config, pollVars, feedVars, mtVars, svcVars, cliVars>>

----------------------------------------------------------------------------
(* Configuration: market groups and prices.                                *)

\* one dollar, in thousandths
Dollar == 10 * 100

\* BotConfig.Markets: name -> ordered outcome token ids
Outcomes == [A |-> <<"a1", "a2">>, B |-> <<"b1", "b2", "b3">>]

MarketNames == DOMAIN Outcomes

Range(s) == {s[i] : i \in DOMAIN s}

TokensOf(g) == Range(Outcomes[g])

Tokens == UNION {TokensOf(g) : g \in MarketNames}

\* a quote as *MarketData; a key never stored reads as NoQuote with exists = FALSE
NoQuote == [exists |-> FALSE, BestAsk |-> 0]

Quote(ask) == [exists |-> TRUE, BestAsk |-> ask]

\* best asks the exchange may report (0: the book has no ask)
Asks == {0, 300, 600}

Quotes == {Quote(a) : a \in Asks}

\* the configuration every specification starts from unless it draws its own
NoConfig == [Markets |-> <<>>, MaxSpendUSDC |-> 0, TakerEnabled |-> FALSE,
             MinEdge |-> 0, DryRun |-> FALSE, WorkerAmount |-> 0, Named |-> TRUE]

----------------------------------------------------------------------------
(* MarketCache: Update and Get over sync.Map.                              *)

CacheTasks == {"t1", "t2"}

CacheKeys == TokensOf("A")

\* keeps the first value stored under a key (LoadOrStore in place of Store)
UpdateFirstOnly(d, tokenID, q) ==
    IF d[tokenID].exists THEN d ELSE [d EXCEPT ![tokenID] = q]

\* MarketCache.Update: data.Store(tokenID, data)
Update(d, tokenID, q) == [d EXCEPT ![tokenID] = q]

\* reports every key as present
GetAlwaysFound(d, tokenID) == <<d[tokenID], TRUE>>

\* MarketCache.Get: (value, exists)
Get(d, tokenID) == <<d[tokenID], d[tokenID].exists>>

NoTask == [updKey |-> "", updVal |-> NoQuote, clean |-> FALSE,
           getKey |-> "", getVal |-> NoQuote, getFound |-> FALSE, getFresh |-> FALSE]

\* task t calls Update(k, q)
CacheUpdate(t, k, q) ==
    /\ data' = Update(data, k, q)
    /\ latest' = [latest EXCEPT ![k] = q]
    /\ task' = [u \in CacheTasks |->
                  IF u = t
                  THEN [task[u] EXCEPT !.updKey = k, !.updVal = q, !.clean = TRUE,
                                       !.getKey = "", !.getFresh = FALSE]
                  ELSE IF task[u].updKey = k
                       THEN [task[u] EXCEPT !.clean = FALSE]
                       ELSE task[u]]
    /\ UNCHANGED <<config, cliVars, svcVars, pollVars, feedVars, mtVars>>

\* task t calls Get(k); getFresh records that it follows t's own Update to k
\* with no other Update to k in between
CacheGet(t, k) ==
    /\ LET r == Get(data, k) IN
       task' = [task EXCEPT ![t].getKey = k, ![t].getVal = r[1], ![t].getFound = r[2],
                            ![t].getFresh = (task[t].updKey = k /\ task[t].clean)]
    /\ UNCHANGED <<data, latest, config, cliVars, svcVars, pollVars, feedVars, mtVars>>

IdlePoll == /\ marketData = [t \in Tokens |-> NoQuote]
            /\ econ = <<>>
            /\ activeOrders = {}
            /\ polls = 0
            /\ checker = <<>>
            /\ exec = <<>>
            /\ totalPnL = 0
            /\ posted = {}

IdleFeed == /\ arbTrigger = <<>>
            /\ handler = [busy |-> FALSE, AssetID |-> "", ask |-> 0, last |-> "none"]
            /\ worker = <<>>
            /\ spawned = <<>>
            /\ cancelled = FALSE

IdleSvc == /\ wsClient = "none"
           /\ updater = [pc |-> "off", failures |-> 0]
           /\ verifier = [pc |-> "off", emptyTokens |-> <<>>]
           /\ stale = {}

\* authentication levels
L0 == 0
L1 == 1
L2 == 2

\* no client constructed, no operation called
NoClient == [signer |-> FALSE, creds |-> FALSE, mode |-> L0, tickSizes |-> ""]
NoCall == [op |-> "", price |-> 0, tickSize |-> "", err |-> "", signed |-> FALSE]

IdleCli == client = NoClient /\ call = NoCall

IdleMT == /\ activeBids = <<>>
          /\ orders = <<>>
          /\ mt = <<>>
          /\ unswept = <<>>

IdleCache == /\ data = [t \in Tokens |-> NoQuote]
             /\ latest = [t \in Tokens |-> NoQuote]
             /\ task = [t \in CacheTasks |-> NoTask]

InitCache == IdleCache /\ config = NoConfig /\ IdleSvc /\ IdleCli /\ IdlePoll /\ IdleFeed /\ IdleMT

NextCache ==
    \/ \E t \in CacheTasks, k \in CacheKeys, q \in Quotes : CacheUpdate(t, k, q)
    \/ \E t \in CacheTasks, k \in CacheKeys : CacheGet(t, k)

SpecCache == InitCache /\ [][NextCache]_vars

\* C6: a Get(k) that follows the task's own Update(k, v), with no other Update
\* to k in between, returns (v, found), whatever the other tasks write to
\* other keys meanwhile.
C6_GetAfterUpdate ==
    \A t \in CacheTasks :
        task[t].getFresh => task[t].getFound /\ task[t].getVal = task[t].updVal

\* a fresh Get while the other task's last Update went to another key
C6_Witness ==
    \E t, u \in CacheTasks :
        /\ t # u
        /\ task[t].getFresh
        /\ task[u].updKey \notin {"", task[t].updKey}

\* Get(k) is the latest Update to k, or not-found when k was never updated
C7_LastWriteWinsInv ==
    \A k \in Tokens : Get(data, k) = <<latest[k], latest[k].exists>>

\* a step changes what Get returns for a key only if some task has just
\* updated that key, and it never removes an entry
C7_Frame ==
    \A k \in Tokens :
        /\ Get(data, k)[2] => Get(data', k)[2]
        /\ Get(data', k) # Get(data, k) =>
              \E t \in CacheTasks : /\ task'[t].updKey = k
                                    /\ task'[t].clean
                                    /\ task'[t] # task[t]

\* C7: per key the last write wins: Get(k) returns the value of the latest
\* Update to k, or not-found for a key never updated; an Update to k leaves
\* Get of every other key unchanged, and an entry once written stays.
C7_LastWriteWins == [](C7_LastWriteWinsInv) /\ [][C7_Frame]_vars

\* a key overwritten by a second task while another key was never written
C7_Witness ==
    \E k1, k2 \in CacheKeys :
        /\ latest[k1].exists
        /\ ~latest[k2].exists
        /\ \E t \in CacheTasks : task[t].updKey = k1 /\ ~task[t].clean

----------------------------------------------------------------------------
(* Polling engine: arbitrage economics (checkArbitrageForMarket).          *)
(* EdgePercent and DetectedAt are display-only and left out.               *)

\* the fallback minimum edge, 0.001
DefaultMinEdge == 1

\* counts an outcome with a zero ask as liquid
IsLiquidNonNegative(q) == q.exists /\ q.BestAsk >= 0

\* "exists && md.BestAsk > 0"
IsLiquid(q) == q.exists /\ q.BestAsk > 0

\* MarketData.OutcomeName as pollMarketData fills it from market.OutcomeNames
OutcomeName(tid) == IF config.Named THEN tid ELSE ""

\* the loop over market.Outcomes: totalCost, liquidCount and outcomes
RECURSIVE CollectLiquid(_, _, _)
CollectLiquid(outs, md, acc) ==
    IF outs = <<>> THEN acc
    ELSE LET tid == Head(outs) IN
         CollectLiquid(Tail(outs), md,
            IF IsLiquid(md[tid])
            THEN [totalCost   |-> acc.totalCost + md[tid].BestAsk,
                  liquidCount |-> acc.liquidCount + 1,
                  outcomes    |-> Append(acc.outcomes,
                                    [TokenID |-> tid, OutcomeName |-> OutcomeName(tid),
                                     BestAsk |-> md[tid].BestAsk])]
            ELSE acc)

\* minEdge := 0.001 unless the taker strategy is configured and enabled
MinEdgeOf(cfg) == IF cfg.TakerEnabled THEN cfg.MinEdge ELSE DefaultMinEdge

\* the locals of checkArbitrageForMarket after the loop: k, payout, edge
ArbEconomics(g, md) ==
    LET acc == CollectLiquid(Outcomes[g], md,
                             [totalCost |-> 0, liquidCount |-> 0, outcomes |-> <<>>])
        guaranteedPayout == (acc.liquidCount - 1) * Dollar
    IN  [liquidCount      |-> acc.liquidCount,
         totalCost        |-> acc.totalCost,
         outcomes         |-> acc.outcomes,
         guaranteedPayout |-> guaranteedPayout,
         edge             |-> guaranteedPayout - acc.totalCost]

\* checkArbitrageForMarket: the opportunities it returns (none or one)
checkArbitrageForMarket(g, md, cfg) ==
    LET e == ArbEconomics(g, md) IN
    IF e.liquidCount < 2 THEN <<>>
    ELSE IF e.edge > MinEdgeOf(cfg)
         THEN << [MarketName       |-> g,
                  TotalCost        |-> e.totalCost,
                  GuaranteedPayout |-> e.guaranteedPayout,
                  Edge             |-> e.edge,
                  NumShares        |-> e.liquidCount,
                  Outcomes         |-> e.outcomes,
                  WouldExecute     |-> e.edge > MinEdgeOf(cfg)
                                       /\ e.totalCost <= cfg.MaxSpendUSDC] >>
         ELSE <<>>

\* configurations the economics are evaluated under
EdgeConfigs ==
    [Markets : {<<"A", "B">>}, MaxSpendUSDC : {Dollar}, TakerEnabled : BOOLEAN,
     MinEdge : {100}, DryRun : {FALSE}, WorkerAmount : {1}, Named : {TRUE}]

\* one evaluation of market g on the current marketData
Evaluate(g) ==
    /\ econ = <<>>
    /\ econ' = << [market |-> g,
                   locals |-> ArbEconomics(g, marketData),
                   opps   |-> checkArbitrageForMarket(g, marketData, config)] >>
    /\ UNCHANGED <<cacheVars, config, cliVars, svcVars, marketData, activeOrders, polls, checker, exec,
                   totalPnL, posted, feedVars, mtVars>>

InitEdge ==
    /\ IdleCache /\ IdleFeed /\ IdleMT
    /\ config \in EdgeConfigs /\ IdleSvc /\ IdleCli
    /\ marketData \in [Tokens -> Quotes \cup {NoQuote}]
    /\ econ = <<>> /\ activeOrders = {} /\ polls = 0 /\ checker = <<>>
    /\ exec = <<>> /\ totalPnL = 0 /\ posted = {}

NextEdge == \E g \in MarketNames : Evaluate(g)

SpecEdge == InitEdge /\ [][NextEdge]_vars

\* sum of the best asks of a set of tokens
RECURSIVE SumAsks(_, _)
SumAsks(S, md) ==
    IF S = {} THEN 0
    ELSE LET t == CHOOSE x \in S : TRUE IN md[t].BestAsk + SumAsks(S \ {t}, md)

PositiveAsk(g, md) == {t \in TokensOf(g) : md[t].exists /\ md[t].BestAsk > 0}

\* C3: with k the number of outcomes of the group that have a positive cached
\* ask, k >= 2 gives payout k-1, cost the sum of those k asks and edge exactly
\* (k-1) - cost, and every opportunity returned carries these values; with
\* k < 2 no opportunity is returned.
C3_EdgeFormula ==
    \A i \in DOMAIN econ :
        LET g == econ[i].market
            L == PositiveAsk(g, marketData)
            k == Cardinality(L)
            e == econ[i].locals
        IN  IF k < 2 THEN econ[i].opps = <<>>
            ELSE /\ e.liquidCount = k
                 /\ e.guaranteedPayout = (k - 1) * Dollar
                 /\ e.totalCost = SumAsks(L, marketData)
                 /\ e.edge = (k - 1) * Dollar - SumAsks(L, marketData)
                 /\ \A j \in DOMAIN econ[i].opps :
                       /\ econ[i].opps[j].GuaranteedPayout = (k - 1) * Dollar
                       /\ econ[i].opps[j].TotalCost = SumAsks(L, marketData)
                       /\ econ[i].opps[j].Edge = (k - 1) * Dollar - SumAsks(L, marketData)
                       /\ econ[i].opps[j].NumShares = k

\* an opportunity of the three-outcome group found with only two liquid outcomes
C3_Witness ==
    \E i \in DOMAIN econ :
        /\ econ[i].market = "B"
        /\ econ[i].locals.liquidCount = 2
        /\ econ[i].opps # <<>>
        /\ \E t \in TokensOf("B") : marketData[t].exists /\ marketData[t].BestAsk = 0

----------------------------------------------------------------------------
(* Polling engine: pollMarketData, checkAllMarketsForArbitrage and         *)
(* executeArbitrageParallel.  The copies of Model that the UI loop makes   *)
(* share the storage of marketData and activeOrders; the opportunities     *)
(* list and the counters of Stats other than totalPnL are left out.        *)

\* polls issued in one run
MaxPolls == 2

\* the tokens polled: every outcome of every configured market
Polled(cfg) == UNION {TokensOf(cfg.Markets[i]) : i \in DOMAIN cfg.Markets}

\* pollMarketData, the request succeeded: every book is stored, then
\* "go m.checkAllMarketsForArbitrage()"
Poll(book) ==
    /\ polls < MaxPolls
    /\ polls' = polls + 1
    /\ marketData' = [t \in Tokens |->
                         IF t \in DOMAIN book THEN Quote(book[t]) ELSE marketData[t]]
    /\ checker' = Append(checker, [next |-> 1])
    /\ UNCHANGED <<cacheVars, config, cliVars, svcVars, econ, activeOrders, exec, totalPnL, posted,
                   feedVars, mtVars>>

\* pollMarketData, GetOrderBooks failed: nothing stored, no check started
PollError ==
    /\ polls < MaxPolls
    /\ polls' = polls + 1
    /\ UNCHANGED <<cacheVars, config, cliVars, svcVars, marketData, econ, activeOrders, checker, exec,
                   totalPnL, posted, feedVars, mtVars>>

NewExec(g, opp) == [market |-> g, opp |-> opp, pc |-> "load", legs |-> <<>>, pnlRead |-> 0]

\* starts an execution for every opportunity within the budget
LaunchWhenExecutable(opp) == opp.WouldExecute

\* if opp.WouldExecute && !m.config.DryRun
ShouldLaunch(opp) == opp.WouldExecute /\ ~config.DryRun

\* the executions checkAllMarketsForArbitrage starts for the opportunities
RECURSIVE Launch(_, _)
Launch(g, opps) ==
    IF opps = <<>> THEN <<>>
    ELSE (IF ShouldLaunch(Head(opps))
          THEN <<NewExec(g, Head(opps))>> ELSE <<>>) \o Launch(g, Tail(opps))

\* checkAllMarketsForArbitrage: one iteration of its loop over m.markets
CheckMarket(c) ==
    /\ checker[c].next <= Len(config.Markets)
    /\ LET g == config.Markets[checker[c].next] IN
       exec' = exec \o Launch(g, checkArbitrageForMarket(g, marketData, config))
    /\ checker' = [checker EXCEPT ![c].next = @ + 1]
    /\ UNCHANGED <<cacheVars, config, cliVars, svcVars, marketData, econ, activeOrders, polls,
                   totalPnL, posted, feedVars, mtVars>>

\* executeArbitrageParallel: activeOrders.Load, return when the market is active
ExecLoad(e) ==
    /\ exec[e].pc = "load"
    /\ exec' = [exec EXCEPT ![e].pc =
                  IF exec[e].market \in activeOrders THEN "skipped" ELSE "store"]
    /\ UNCHANGED <<cacheVars, config, cliVars, svcVars, marketData, econ, activeOrders, polls, checker,
                   totalPnL, posted, feedVars, mtVars>>

\* executeArbitrageParallel: activeOrders.Store(name, true), then one goroutine
\* per outcome of the opportunity
ExecStore(e) ==
    /\ exec[e].pc = "store"
    /\ activeOrders' = activeOrders \cup {exec[e].market}
    /\ exec' = [exec EXCEPT ![e].pc = "legs",
                            ![e].legs = [i \in DOMAIN exec[e].opp.Outcomes |-> "run"]]
    /\ UNCHANGED <<cacheVars, config, cliVars, svcVars, marketData, econ, polls, checker,
                   totalPnL, posted, feedVars, mtVars>>

\* the leg's token lookup: the first outcome of the market whose stored
\* OutcomeName equals the leg's
RECURSIVE FindToken(_, _, _)
FindToken(outs, name, md) ==
    IF outs = <<>> THEN ""
    ELSE IF md[Head(outs)].exists /\ OutcomeName(Head(outs)) = name THEN Head(outs)
    ELSE FindToken(Tail(outs), name, md)

\* shares := 1, raised to int(1/price + 0.99) when one share is under $1.00
Shares(price) ==
    IF price < Dollar THEN (100 * Dollar + 99 * price) \div (100 * price) ELSE 1

\* one leg goroutine: lookup, CreateOrder, PostOrder, result sent to results
Leg(e, i, accepted) ==
    /\ exec[e].pc = "legs"
    /\ exec[e].legs[i] = "run"
    /\ LET md      == exec[e].opp.Outcomes[i]
           tokenID == FindToken(Outcomes[exec[e].market], md.OutcomeName, marketData)
           ok      == tokenID # "" /\ accepted
       IN  /\ exec' = [exec EXCEPT ![e].legs[i] = IF ok THEN "ok" ELSE "fail"]
           /\ posted' = IF ok
                        THEN posted \cup {[exec |-> e, leg |-> i, TokenID |-> tokenID,
                                           Price |-> md.BestAsk, Size |-> Shares(md.BestAsk)]}
                        ELSE posted
    /\ UNCHANGED <<cacheVars, config, cliVars, svcVars, marketData, econ, activeOrders, polls, checker,
                   totalPnL, feedVars, mtVars>>

AllReported(e) == \A i \in DOMAIN exec[e].legs : exec[e].legs[i] # "run"

AllSucceeded(e) == \A i \in DOMAIN exec[e].legs : exec[e].legs[i] = "ok"

\* clears the flag only when every leg succeeded
ClearedOnSuccess(e) ==
    IF AllSucceeded(e) THEN activeOrders \ {exec[e].market} ELSE activeOrders

\* activeOrders.Delete(market.Name), "regardless of success/failure"
Cleared(e) == activeOrders \ {exec[e].market}

\* the collecting goroutine: wg.Wait, count the results, clear the flag, and
\* read totalPnL for "totalPnL += opp.Edge" when every leg succeeded
ExecCollect(e) ==
    /\ exec[e].pc = "legs"
    /\ AllReported(e)
    /\ activeOrders' = Cleared(e)
    /\ exec' = [exec EXCEPT ![e].pc = IF AllSucceeded(e) THEN "credit" ELSE "done",
                            ![e].pnlRead = totalPnL]
    /\ UNCHANGED <<cacheVars, config, cliVars, svcVars, marketData, econ, polls, checker,
                   totalPnL, posted, feedVars, mtVars>>

\* the write of "totalPnL += opp.Edge": the field is shared by every
\* collecting goroutine and updated without synchronisation
ExecCredit(e) ==
    /\ exec[e].pc = "credit"
    /\ totalPnL' = exec[e].pnlRead + exec[e].opp.Edge
    /\ exec' = [exec EXCEPT ![e].pc = "done"]
    /\ UNCHANGED <<cacheVars, config, cliVars, svcVars, marketData, econ, activeOrders, polls, checker,
                   posted, feedVars, mtVars>>

\* configurations of the polling engine
PollConfigs ==
    [Markets : {<<"A">>}, MaxSpendUSDC : {Dollar}, TakerEnabled : {TRUE},
     MinEdge : {100}, DryRun : BOOLEAN, WorkerAmount : {1}, Named : {TRUE}]

InitPoll ==
    /\ IdleCache /\ IdleFeed /\ IdleMT /\ IdlePoll
    /\ posted = {}
    /\ config \in PollConfigs /\ IdleSvc /\ IdleCli

ExecStep(e) ==
    \/ ExecLoad(e)
    \/ ExecStore(e)
    \/ \E i \in DOMAIN exec[e].legs, accepted \in BOOLEAN : Leg(e, i, accepted)
    \/ ExecCollect(e)
    \/ ExecCredit(e)

NextPoll ==
    \/ \E book \in [Polled(config) -> Asks] : Poll(book)
    \/ PollError
    \/ \E c \in DOMAIN checker : CheckMarket(c)
    \/ \E e \in DOMAIN exec : ExecStep(e)

SpecPoll == InitPoll /\ [][NextPoll]_vars

\* ids an execution can get: one per poll and configured market at most
ExecIds == 1 .. (MaxPolls * Cardinality(MarketNames))

\* every goroutine of an execution keeps running and every order call returns
SpecPollFair ==
    SpecPoll /\ \A e \in ExecIds : WF_vars(e \in DOMAIN exec /\ ExecStep(e))

Started(e) == e \in DOMAIN exec /\ exec[e].pc = "legs"

Finished(e) == e \in DOMAIN exec /\ exec[e].pc \in {"credit", "done"}

\* the step that ends an execution leaves the flag of its market cleared
C4_ClearsOnFinish ==
    \A e \in DOMAIN exec :
        Started(e) /\ exec'[e].pc \in {"credit", "done"}
            => exec[e].market \notin activeOrders'

\* an evaluation is turned away only while an execution of its market that
\* has set the flag has not finished yet
C4_RetryPermitted ==
    \A e \in DOMAIN exec :
        exec[e].pc = "load" /\ exec'[e].pc = "skipped"
            => \E f \in DOMAIN exec : /\ f # e
                                      /\ exec[f].market = exec[e].market
                                      /\ exec[f].pc = "legs"

\* C4: every execution that starts finishes, whether its legs succeed or
\* fail, and clears the flag of its group as it finishes; a later qualifying
\* evaluation is refused only while another execution is still running, so
\* after a failed execution the next one starts a new execution.
C4_ExecutionEnds ==
    /\ \A e \in ExecIds : Started(e) ~> Finished(e)
    /\ [][C4_ClearsOnFinish]_vars
    /\ [][C4_RetryPermitted]_vars

\* a failed execution has ended and a later execution of the group is running
C4_Witness ==
    \E e, f \in DOMAIN exec :
        /\ e < f
        /\ exec[e].market = exec[f].market
        /\ exec[e].pc = "done" /\ ~AllSucceeded(e)
        /\ exec[f].pc = "legs"
        /\ exec[f].market \in activeOrders

RECURSIVE SumEdges(_)
SumEdges(S) ==
    IF S = {} THEN 0
    ELSE LET e == CHOOSE x \in S : TRUE IN exec[e].opp.Edge + SumEdges(S \ {e})

FullySucceeded == {e \in DOMAIN exec : exec[e].pc = "done" /\ exec[e].legs # <<>>
                                        /\ AllSucceeded(e)}

\* C5: PnL is credited for an execution if and only if every leg succeeded:
\* once every execution has ended, totalPnL is the sum of the edges of the
\* executions whose legs all succeeded, the flag is cleared, and the orders
\* of the legs that succeeded stand.
C5_PnLIffAllLegs ==
    (\A e \in DOMAIN exec : exec[e].pc \in {"done", "skipped"})
        => /\ totalPnL = SumEdges(FullySucceeded)
           /\ activeOrders = {}
           /\ \A e \in DOMAIN exec : \A i \in DOMAIN exec[e].legs :
                 exec[e].legs[i] = "ok" => \E o \in posted : o.exec = e /\ o.leg = i

\* the step clears the flag of g
ClearsFlag(g) == g \in activeOrders /\ g \notin activeOrders'

\* the executions that have stored the flag of g and not yet collected
SetFlag(g) == {e \in DOMAIN exec : exec[e].market = g /\ exec[e].pc = "legs"}

InitNames ==
    /\ IdleCache /\ IdleFeed /\ IdleMT /\ IdlePoll
    /\ posted = {}
    /\ config \in [Markets : {<<"A">>}, MaxSpendUSDC : {Dollar}, TakerEnabled : {TRUE},
                   MinEdge : {100}, DryRun : {FALSE}, WorkerAmount : {1}, Named : BOOLEAN]
    /\ IdleSvc /\ IdleCli

SpecNames == InitNames /\ [][NextPoll]_vars

\* C35: the orders one execution has posted are for different tokens, one
\* per leg, and each is for the token of its leg's outcome.
C35_OneOrderPerOutcomeToken ==
    \A p \in posted :
        /\ p.TokenID = exec[p.exec].opp.Outcomes[p.leg].TokenID
        /\ \A q \in posted : (q.exec = p.exec /\ q.leg # p.leg) => q.TokenID # p.TokenID

\* C16: with dry_run set no order is created or posted, whatever is polled
\* and however many polls run: no execution is ever started and the exchange
\* receives nothing.
C16_DryRunPlacesNoOrder ==
    config.DryRun => exec = <<>> /\ posted = {}

\* dry_run, the last poll showed an opportunity within the budget and the
\* check that followed it has run
C16_Witness ==
    /\ config.DryRun
    /\ polls = MaxPolls
    /\ checker # <<>>
    /\ \A c \in DOMAIN checker : checker[c].next > Len(config.Markets)
    /\ \E g \in Range(config.Markets) :
          LET opps == checkArbitrageForMarket(g, marketData, config) IN
          opps # <<>> /\ opps[1].WouldExecute

----------------------------------------------------------------------------
(* Websocket engine: feed handler, signal queue and taker workers.         *)

\* capacity of arbTrigger (make(chan string, 1000) in the code), scaled down
TriggerCap == 1

\* minEdge of the handler's pre-check, in thousandths
FastMinEdge == 1

\* first-level ask prices a feed message or a REST book may carry (0: none)
FeedAsks == {0, 300}

\* goroutines started by "go checkArbitrage()" that may be alive at once; a
\* signal stays queued while every one of them is busy
SpawnIds == {"s1"}

WorkerSlots == {1, 2}

AllWorkerIds == MarketNames \X WorkerSlots

\* startTakerStrategy: WorkerAmount workers for every market
WorkerIds(cfg) == {w \in AllWorkerIds : w[1] \in Range(cfg.Markets) /\ w[2] <= cfg.WorkerAmount}

\* tokenToMarket
TokenToMarket(tok) == CHOOSE g \in Range(config.Markets) : tok \in TokensOf(g)

IdleHandler == [busy |-> FALSE, AssetID |-> "", ask |-> 0, last |-> "none"]

IdleUnit(g) == [market |-> g, pc |-> "select", asks |-> <<>>, running |-> {}]

FreeSlot == [market |-> "", pc |-> "free", asks |-> <<>>, running |-> {}]

\* a send that waits for room in the channel
BlockingSend(q, x) ==
    [done |-> Len(q) < TriggerCap, q |-> Append(q, x), last |-> "sent"]

\* select { case bot.arbTrigger <- id: default: }
TrySend(q, x) ==
    IF Len(q) < TriggerCap
    THEN [done |-> TRUE, q |-> Append(q, x), last |-> "sent"]
    ELSE [done |-> TRUE, q |-> q, last |-> "dropped"]

\* totalCost and liquidCount of the handler's pre-check
RECURSIVE FastSum(_, _, _)
FastSum(outs, d, acc) ==
    IF outs = <<>> THEN acc
    ELSE LET md == Get(d, Head(outs)) IN
         FastSum(Tail(outs), d,
                 IF md[2] /\ md[1].BestAsk > 0
                 THEN [totalCost |-> acc.totalCost + md[1].BestAsk,
                       liquidCount |-> acc.liquidCount + 1]
                 ELSE acc)

\* the pre-check of OnOrderBookUpdate after the cache write
FastCheck(g, d) ==
    LET s == FastSum(Outcomes[g], d, [totalCost |-> 0, liquidCount |-> 0]) IN
    /\ s.liquidCount >= 2
    /\ s.totalCost < (s.liquidCount - 1) * Dollar - FastMinEdge
    /\ s.totalCost <= config.MaxSpendUSDC

\* the read loop takes a book message off the socket and calls the handler
FeedMessage(tok, ask) ==
    /\ ~handler.busy
    /\ handler' = [busy |-> TRUE, AssetID |-> tok, ask |-> ask, last |-> handler.last]
    /\ UNCHANGED <<cacheVars, config, cliVars, svcVars, pollVars, arbTrigger, worker, spawned,
                   cancelled, mtVars>>

\* OnOrderBookUpdate, from the cache write to its return
OnOrderBookUpdate ==
    /\ handler.busy
    /\ LET d1 == Update(data, handler.AssetID, Quote(handler.ask))
           sig == /\ handler.ask > 0
                  /\ config.MaxSpendUSDC > 0
                  /\ FastCheck(TokenToMarket(handler.AssetID), d1)
           h == IF sig THEN TrySend(arbTrigger, handler.AssetID)
                       ELSE [done |-> TRUE, q |-> arbTrigger, last |-> "none"]
       IN /\ h.done
          /\ data' = d1
          /\ latest' = [latest EXCEPT ![handler.AssetID] = Quote(handler.ask)]
          /\ arbTrigger' = h.q
          /\ handler' = [IdleHandler EXCEPT !.last = h.last]
          /\ stale' = stale \ {handler.AssetID}
    /\ UNCHANGED <<task, config, cliVars, wsClient, updater, verifier, pollVars, worker,
                   spawned, cancelled, mtVars>>


\* an evaluation runs either in a worker (on a tick) or in a goroutine of its
\* own (on a signal); a reference names one or the other
UnitRefs == ({"w"} \X DOMAIN worker) \cup ({"s"} \X DOMAIN spawned)

UnitAt(r) == IF r[1] = "w" THEN worker[r[2]] ELSE spawned[r[2]]

SetUnit(r, u) ==
    IF r[1] = "w"
    THEN worker' = [worker EXCEPT ![r[2]] = u] /\ UNCHANGED spawned
    ELSE spawned' = [spawned EXCEPT ![r[2]] = u] /\ UNCHANGED worker

\* checkArbitrage returns: the worker is back at its select, the goroutine ends
Returned(r) == IF r[1] = "w" THEN IdleUnit(worker[r[2]].market) ELSE FreeSlot

\* the select of runTakerArb may take "case <-ticker.C" only once the signal
\* queue is drained
TickCaseAfterSignals(w) == worker[w].pc = "select" /\ arbTrigger = <<>>

\* the select of runTakerArb may take "case <-ticker.C"
TickCase(w) == worker[w].pc = "select"

\* case <-ticker.C: checkArbitrage()
Tick(w) ==
    /\ TickCase(w)
    /\ worker' = [worker EXCEPT ![w].pc = "check"]
    /\ UNCHANGED <<cacheVars, config, cliVars, svcVars, pollVars, arbTrigger, handler, spawned,
                   cancelled, mtVars>>

\* case <-bot.arbTrigger: go checkArbitrage()
Signal(w, s) ==
    /\ worker[w].pc = "select"
    /\ arbTrigger # <<>>
    /\ spawned[s].pc = "free"
    /\ arbTrigger' = Tail(arbTrigger)
    /\ spawned' = [spawned EXCEPT ![s] = [IdleUnit(worker[w].market) EXCEPT !.pc = "check"]]
    /\ UNCHANGED <<cacheVars, config, cliVars, svcVars, pollVars, handler, worker, cancelled, mtVars>>

\* case <-bot.ctx.Done(): return
WorkerStop(w) ==
    /\ worker[w].pc = "select"
    /\ cancelled
    /\ worker' = [worker EXCEPT ![w].pc = "stopped"]
    /\ UNCHANGED <<cacheVars, config, cliVars, svcVars, pollVars, arbTrigger, handler, spawned,
                   cancelled, mtVars>>

\* cleanup: bot.cancel()
Cancel ==
    /\ ~cancelled
    /\ cancelled' = TRUE
    /\ UNCHANGED <<cacheVars, config, cliVars, svcVars, pollVars, arbTrigger, handler, worker,
                   spawned, mtVars>>

\* asks read from the cache, in outcome order
RECURSIVE CachedAsks(_, _)
CachedAsks(outs, d) ==
    IF outs = <<>> THEN <<>>
    ELSE LET md == Get(d, Head(outs)) IN
         IF ~md[2] \/ md[1].BestAsk = 0
         THEN CachedAsks(Tail(outs), d)
         ELSE <<[Outcome |-> Head(outs), Price |-> md[1].BestAsk]>>
                  \o CachedAsks(Tail(outs), d)

\* emptyBooks
RECURSIVE EmptyBooks(_, _)
EmptyBooks(outs, d) ==
    IF outs = <<>> THEN <<>>
    ELSE LET md == Get(d, Head(outs)) IN
         IF ~md[2] \/ md[1].BestAsk = 0
         THEN <<Head(outs)>> \o EmptyBooks(Tail(outs), d)
         ELSE EmptyBooks(Tail(outs), d)

\* asks of the double-check: rest[t] is the first ask GetOrderBook(t) returns
\* (0: error, or no ask)
RECURSIVE RestAsks(_, _)
RestAsks(empty, rest) ==
    IF empty = <<>> THEN <<>>
    ELSE IF rest[Head(empty)] > 0
         THEN <<[Outcome |-> Head(empty), Price |-> rest[Head(empty)]]>>
                  \o RestAsks(Tail(empty), rest)
         ELSE RestAsks(Tail(empty), rest)

\* checkArbitrage, first half: budget guard, cache reads, REST double-check
Collect(r, rest) ==
    /\ UnitAt(r).pc = "check"
    /\ LET outs == Outcomes[UnitAt(r).market]
           empty == EmptyBooks(outs, data) IN
       /\ DOMAIN rest = Range(empty)
       /\ IF config.MaxSpendUSDC <= 0
          THEN SetUnit(r, Returned(r))
          ELSE SetUnit(r, [UnitAt(r) EXCEPT
                              !.pc = "decide",
                              !.asks = CachedAsks(outs, data) \o RestAsks(empty, rest)])
    /\ UNCHANGED <<cacheVars, config, cliVars, svcVars, pollVars, arbTrigger, handler, cancelled, mtVars>>

RECURSIVE TotalCost(_)
TotalCost(asks) ==
    IF asks = <<>> THEN 0 ELSE Head(asks).Price + TotalCost(Tail(asks))

\* len(asks) >= 2 && totalCost < (k-1)-cfg.MinEdge && totalCost <= MaxSpendUSDC
ShouldExecute(asks) ==
    /\ Len(asks) >= 2
    /\ TotalCost(asks) < (Len(asks) - 1) * Dollar - config.MinEdge
    /\ TotalCost(asks) <= config.MaxSpendUSDC

\* checkArbitrage, second half: the decision, and one goroutine per ask
Decide(r) ==
    /\ UnitAt(r).pc = "decide"
    /\ IF ShouldExecute(UnitAt(r).asks)
       THEN SetUnit(r, [UnitAt(r) EXCEPT
                           !.pc = "legs",
                           !.running = {UnitAt(r).asks[i].Outcome : i \in DOMAIN UnitAt(r).asks}])
       ELSE SetUnit(r, Returned(r))
    /\ UNCHANGED <<cacheVars, config, cliVars, svcVars, pollVars, arbTrigger, handler, cancelled, mtVars>>

\* placeMarketBuy of one leg returns, with an order placed or with an error
LegReturn(r, o) ==
    /\ UnitAt(r).pc = "legs"
    /\ o \in UnitAt(r).running
    /\ SetUnit(r, [UnitAt(r) EXCEPT !.running = @ \ {o}])
    /\ UNCHANGED <<cacheVars, config, cliVars, svcVars, pollVars, arbTrigger, handler, cancelled, mtVars>>

\* wg.Wait() returns, the cooldown passes, checkArbitrage returns
EvalEnd(r) ==
    /\ UnitAt(r).pc = "legs"
    /\ UnitAt(r).running = {}
    /\ SetUnit(r, Returned(r))
    /\ UNCHANGED <<cacheVars, config, cliVars, svcVars, pollVars, arbTrigger, handler, cancelled, mtVars>>

UnitStep(r) ==
    \/ \E rest \in UNION {[S -> FeedAsks] : S \in SUBSET Tokens} :
           Collect(r, rest)
    \/ Decide(r)
    \/ \E o \in Tokens : LegReturn(r, o)
    \/ EvalEnd(r)

WSConfigs == [Markets : {<<"A">>}, MaxSpendUSDC : {Dollar \div 2, Dollar},
              TakerEnabled : {TRUE}, MinEdge : {10}, DryRun : {FALSE},
              WorkerAmount : {1}, Named : {TRUE}]

InitWS ==
    /\ config \in WSConfigs /\ IdleSvc /\ IdleCli
    /\ IdleCache /\ IdlePoll /\ IdleMT
    /\ arbTrigger = <<>>
    /\ handler = IdleHandler
    /\ worker = [w \in WorkerIds(config) |-> IdleUnit(w[1])]
    /\ spawned = [s \in SpawnIds |-> FreeSlot]
    /\ cancelled = FALSE

NextWS ==
    \/ \E tok \in UNION {TokensOf(g) : g \in Range(config.Markets)}, ask \in FeedAsks :
           FeedMessage(tok, ask)
    \/ OnOrderBookUpdate
    \/ \E w \in DOMAIN worker : Tick(w)
    \/ \E w \in DOMAIN worker, s \in DOMAIN spawned : Signal(w, s)
    \/ \E w \in DOMAIN worker : WorkerStop(w)
    \/ \E r \in UnitRefs : UnitStep(r)
    \/ Cancel

SpecWS == InitWS /\ [][NextWS]_vars

\* the ticker keeps firing and the select picks among its ready cases at
\* random; every REST and order call returns
SpecWSFair ==
    /\ SpecWS
    /\ \A w \in AllWorkerIds :
          /\ WF_vars(w \in DOMAIN worker /\ Tick(w))
          /\ WF_vars(w \in DOMAIN worker /\ UnitStep(<<"w", w>>))


\* an evaluation whose order legs are in flight
Executing(r) == UnitAt(r).pc = "legs" /\ UnitAt(r).running # {}

ExecutingIn(g) == {r \in UnitRefs : UnitAt(r).market = g /\ Executing(r)}

\* cleanup: bot.wg.Wait() can return, every goroutine counted in bot.wg
\* having returned
WaitGroupDone == \A w \in DOMAIN worker : worker[w].pc = "stopped"

\* C28: teardown does not finish while a leg order submission is in flight:
\* when cleanup can return after the cancellation signal, no execution,
\* started by a tick or by a feed signal, has a leg still in flight.
C28_TeardownWaitsForLegs ==
    (cancelled /\ WaitGroupDone) => \A r \in UnitRefs : ~Executing(r)

\* C1: at most one arbitrage execution is in flight per market group at any
\* time, under any interleaving of tick evaluations and signal evaluations.
C1_OneExecutionPerGroup ==
    \A g \in MarketNames : Cardinality(ExecutingIn(g)) <= 1

\* C2: an evaluation submits the legs of an execution if and only if it saw
\* k >= 2 liquid outcomes, an edge above minEdge, a cost within the budget and
\* no execution of its group in flight; an opportunity over the budget
\* submits nothing.
C2_SubmitsIffQualified ==
    [][\A r \in UnitRefs :
          UnitAt(r).pc = "decide" /\ UnitAt(r)' # UnitAt(r)
              => LET asks == UnitAt(r).asks
                     k == Len(asks)
                     cost == TotalCost(asks)
                     edge == (k - 1) * Dollar - cost
                     submits == UnitAt(r)'.pc = "legs" /\ UnitAt(r)'.running # {}
                 IN /\ submits <=> /\ k >= 2
                                   /\ edge > config.MinEdge
                                   /\ cost <= config.MaxSpendUSDC
                                   /\ ExecutingIn(UnitAt(r).market) = {}
                    /\ cost > config.MaxSpendUSDC => ~submits]_vars

\* C8: the feed handler never waits on the hand-off of a signal: a handler
\* call can always run to its end, a signal that finds the queue full is
\* dropped, and the queue never holds more than its capacity.
C8_HandOffNeverBlocks ==
    /\ [](handler.busy => ENABLED OnOrderBookUpdate)
    /\ [](Len(arbTrigger) <= TriggerCap)
    /\ [][handler.busy /\ ~handler'.busy /\ Len(arbTrigger) = TriggerCap
             => arbTrigger' = arbTrigger]_vars

\* the handler has returned after dropping a signal on a full queue
C8_Witness ==
    /\ ~handler.busy
    /\ handler.last = "dropped"
    /\ Len(arbTrigger) = TriggerCap

\* C9: until cancellation every configured group is evaluated again and
\* again by the tick of its worker, whatever happens to the feed signals.
C9_TickEvaluatesForever ==
    \A g \in MarketNames :
        []<>(\/ cancelled
             \/ g \notin Range(config.Markets)
             \/ \E w \in DOMAIN worker : w[1] = g /\ worker[w].pc = "check")

\* a tick evaluation begins while the queue is full and the last signal of
\* the feed was dropped
C9_Witness ==
    /\ ~cancelled
    /\ handler.last = "dropped"
    /\ Len(arbTrigger) = TriggerCap
    /\ \E w \in DOMAIN worker : worker[w].pc = "check"


----------------------------------------------------------------------------
(* Websocket engine: maker-taker strategy.                                 *)

\* the price 1.0, in hundred-thousandths
One == 100 * Dollar

\* tick sizes the exchange uses, as the strings the client handles
TickSizes == {"0.1", "0.01", "0.001", "0.0001"}

\* strconv.ParseFloat(tickSize, 64), in hundred-thousandths
ParseFloat(tickSize) ==
    CASE tickSize = "0.1"    -> One \div 10
      [] tickSize = "0.01"   -> One \div 100
      [] tickSize = "0.001"  -> One \div 1000
      [] tickSize = "0.0001" -> One \div 10000

\* digits after the decimal point of the string
getDecimalPlaces(s) ==
    CASE s = "0.1"    -> 1
      [] s = "0.01"   -> 2
      [] s = "0.001"  -> 3
      [] s = "0.0001" -> 4

RECURSIVE Pow10(_)
Pow10(n) == IF n = 0 THEN 1 ELSE 10 * Pow10(n - 1)

Abs(x) == IF x < 0 THEN -x ELSE x

\* utilities.PriceValid.  Scaled values are kept as numerators over One;
\* math.Round is (x + One/2) \div One.  The comparison priceDiff < 0.01 is
\* exact here; a price lying exactly 0.01 scaled units from a multiple is
\* decided by floating-point rounding in the program and is not among the
\* prices the model draws.
PriceValid(price, tickSize) ==
    LET tick         == ParseFloat(tickSize)
        scale        == Pow10(getDecimalPlaces(tickSize))
        scaledPrice  == price * scale
        scaledTick   == tick * scale
        roundedPrice == (scaledPrice + One \div 2) \div One
        roundedTick  == (scaledTick + One \div 2) \div One
        priceDiff    == Abs(scaledPrice - roundedPrice * One)
    IN  IF price < tick \/ price > One - tick THEN FALSE
        ELSE IF roundedTick = 0 THEN FALSE
        ELSE (roundedPrice % roundedTick) = 0 /\ priceDiff * 100 < One

\* signs an order at any price
AcceptsAnyPrice(price) == TRUE

\* what CreateOrder makes of a bid price in thousandths: it signs the order
\* only when the price is valid for the minimum tick size of the token, which
\* the server decides
CreateOrderAccepts(price) ==
    \E tickSize \in TickSizes : PriceValid(100 * price, tickSize)

\* order ids the exchange issues before it rejects further bids
MaxOrders == 2

\* minimum tick size of a bid, in thousandths
MinBid == 10

\* activeBids[market][outcome] = nil
NoBid == [OrderID |-> 0, Price |-> 0]

IdleMaker(g) == [market |-> g, pc |-> "wait", j |-> 0, bestAsks |-> <<>>,
                 filledOutcome |-> "", running |-> {},
                 bought |-> [o \in TokensOf(g) |-> 0]]

\* bot.client.Cancel(id): the exchange cancels a live order when the call
\* gets through; a cancel of a filled order is an error the callers only log
CancelOrder(os, id, through) ==
    IF through /\ os[id].status = "LIVE"
    THEN [os EXCEPT ![id].status = "CANCELED"]
    ELSE os

\* the tick of runMakerTakerArb has begun after these fills
CycleStart(u) == [o \in DOMAIN u |-> IF u[o] = "filled" THEN "due" ELSE u[o]]

\* the cycle ends, and what was due has not been swept
CycleEnd(u) == [o \in DOMAIN u |-> IF u[o] = "due" THEN "missed" ELSE u[o]]

\* requires a quote for every outcome, whatever its ask
BestAsksOfQuoted(g, d) ==
    IF \E o \in TokensOf(g) : ~Get(d, o)[2]
    THEN <<>>
    ELSE [o \in TokensOf(g) |-> Get(d, o)[1].BestAsk]

\* quotes of every outcome, or <<>> when validData is false
BestAsksOf(g, d) ==
    IF \E o \in TokensOf(g) : ~Get(d, o)[2] \/ Get(d, o)[1].BestAsk = 0
    THEN <<>>
    ELSE [o \in TokensOf(g) |-> Get(d, o)[1].BestAsk]

\* case <-ticker.C: read the quotes; without a quote for every outcome the
\* cycle is over (continue)
MakerTick ==
    /\ mt.pc = "wait"
    /\ LET asks == BestAsksOf(mt.market, data) IN
       IF asks = <<>>
       THEN /\ unswept' = CycleEnd(CycleStart(unswept))
            /\ UNCHANGED mt
       ELSE /\ unswept' = CycleStart(unswept)
            /\ mt' = [mt EXCEPT !.pc = "reprice", !.j = 1, !.bestAsks = asks]
    /\ UNCHANGED <<cacheVars, config, cliVars, svcVars, pollVars, feedVars, activeBids, orders>>

\* sums the asks of every outcome, J included
RECURSIVE SumEveryAsk(_, _, _)
SumEveryAsk(outs, j, bestAsks) ==
    IF outs = <<>> THEN 0
    ELSE bestAsks[Head(outs)] + SumEveryAsk(Tail(outs), j, bestAsks)

RECURSIVE SumOtherAsks(_, _, _)
SumOtherAsks(outs, j, bestAsks) ==
    IF outs = <<>> THEN 0
    ELSE (IF Head(outs) # j THEN bestAsks[Head(outs)] ELSE 0)
             + SumOtherAsks(Tail(outs), j, bestAsks)

\* desiredBid := (n - 1 - cfg.ExtraEdge) - sumOtherAsks
DesiredBid(g, j, bestAsks) ==
    (Len(Outcomes[g]) - 1) * Dollar - config.ExtraEdge
        - SumOtherAsks(Outcomes[g], j, bestAsks)

\* updateBid: cancel the bid at another price and place a new one; accepted
\* is whether CreateOrder and PostOrder get through and return an orderID
updateBid(g, o, price, through, accepted) ==
    LET cur == activeBids[g][o] IN
    IF cur # NoBid /\ cur.Price = price
    THEN UNCHANGED <<activeBids, orders>>
    ELSE LET os == IF cur # NoBid THEN CancelOrder(orders, cur.OrderID, through)
                                  ELSE orders IN
         IF accepted /\ CreateOrderAccepts(price) /\ Len(os) < MaxOrders
         THEN /\ orders' = Append(os, [TokenID |-> o, status |-> "LIVE"])
              /\ activeBids' = [activeBids EXCEPT
                                   ![g][o] = [OrderID |-> Len(os) + 1, Price |-> price]]
         ELSE /\ orders' = os
              /\ UNCHANGED activeBids

\* cancelBid
cancelBid(g, o, through) ==
    LET cur == activeBids[g][o] IN
    IF cur # NoBid
    THEN /\ orders' = CancelOrder(orders, cur.OrderID, through)
         /\ activeBids' = [activeBids EXCEPT ![g][o] = NoBid]
    ELSE UNCHANGED <<activeBids, orders>>

\* one round of the reprice loop, for the outcome at index mt.j
Reprice(through, accepted) ==
    /\ mt.pc = "reprice"
    /\ LET g == mt.market
           o == Outcomes[g][mt.j]
           desiredBid == DesiredBid(g, o, mt.bestAsks) IN
       /\ IF desiredBid > MinBid
          THEN updateBid(g, o, desiredBid, through, accepted)
          ELSE cancelBid(g, o, through)
       /\ mt' = IF mt.j < Len(Outcomes[g])
                THEN [mt EXCEPT !.j = @ + 1]
                ELSE [mt EXCEPT !.pc = "fillcheck", !.j = 0]
    /\ UNCHANGED <<cacheVars, config, cliVars, svcVars, pollVars, feedVars, unswept>>

\* sweeps every outcome of the group, the filled one included
SweepEveryOutcome(g, filledOutcome) == TokensOf(g)

\* the outcomes the sweep loop starts a market buy for
SweepTargets(g, filledOutcome) == {o \in TokensOf(g) : o # filledOutcome}

\* outcomes checkForFilledBid may return: a recorded bid the exchange reports
\* FILLED; errs are the outcomes whose GetOrder call fails
FilledBids(g, errs) ==
    {o \in TokensOf(g) : /\ activeBids[g][o] # NoBid
                         /\ o \notin errs
                         /\ orders[activeBids[g][o].OrderID].status = "FILLED"}

\* checkForFilledBid and the start of the sweep; with no fill found the cycle
\* is over
FillCheck(errs, filledOutcome) ==
    /\ mt.pc = "fillcheck"
    /\ LET found == FilledBids(mt.market, errs) IN
       IF found = {}
       THEN /\ filledOutcome = ""
            /\ mt' = IdleMaker(mt.market)
            /\ unswept' = CycleEnd(unswept)
       ELSE /\ filledOutcome \in found
            /\ mt' = [mt EXCEPT !.pc = "sweep", !.filledOutcome = filledOutcome,
                                !.running = SweepTargets(mt.market, filledOutcome)]
            /\ unswept' = [unswept EXCEPT ![filledOutcome] = "none"]
    /\ UNCHANGED <<cacheVars, config, cliVars, svcVars, pollVars, feedVars, activeBids, orders>>

\* the sweep goroutine of one outcome calls placeMarketBuy and returns
SweepReturn(o) ==
    /\ mt.pc = "sweep"
    /\ o \in mt.running
    /\ mt' = [mt EXCEPT !.running = @ \ {o}, !.bought[o] = @ + 1]
    /\ UNCHANGED <<cacheVars, config, cliVars, svcVars, pollVars, feedVars, activeBids, orders, unswept>>

RECURSIVE CancelAll(_, _, _)
CancelAll(os, bids, through) ==
    IF bids = {} THEN os
    ELSE LET b == CHOOSE x \in bids : TRUE IN
         CancelAll(CancelOrder(os, b.OrderID, through), bids \ {b}, through)

\* wg.Wait() returns; clearMarketBids; cooldown; the cycle is over
clearMarketBids(through) ==
    /\ mt.pc = "sweep"
    /\ mt.running = {}
    /\ LET g == mt.market IN
       /\ orders' = CancelAll(orders,
                              {activeBids[g][o] : o \in TokensOf(g)} \ {NoBid}, through)
       /\ activeBids' = [activeBids EXCEPT ![g] = [o \in TokensOf(g) |-> NoBid]]
    /\ mt' = IdleMaker(mt.market)
    /\ unswept' = CycleEnd(unswept)
    /\ UNCHANGED <<cacheVars, config, cliVars, svcVars, pollVars, feedVars>>

\* the exchange fills a resting bid
Fill(id) ==
    /\ orders[id].status = "LIVE"
    /\ orders' = [orders EXCEPT ![id].status = "FILLED"]
    /\ unswept' = [unswept EXCEPT ![orders[id].TokenID] = "filled"]
    /\ UNCHANGED <<cacheVars, config, cliVars, svcVars, pollVars, feedVars, activeBids, mt>>

\* what becomes of a Cancel call: it reaches the exchange (a Cancel call lost
\* on the way is left out)
CancelOutcomes == {TRUE}

MTConfigs == [Markets : {<<"A">>}, MaxSpendUSDC : {0}, ExtraEdge : {10, 400},
              WorkerAmount : {1}]

InitMT ==
    /\ config \in MTConfigs /\ IdleSvc /\ IdleCli
    /\ IdleCache /\ IdlePoll
    /\ arbTrigger = <<>>
    /\ handler = IdleHandler
    /\ worker = <<>>
    /\ spawned = <<>>
    /\ cancelled = FALSE
    /\ activeBids = [g \in Range(config.Markets) |-> [o \in TokensOf(g) |-> NoBid]]
    /\ orders = <<>>
    /\ mt = IdleMaker(config.Markets[1])
    /\ unswept = [o \in TokensOf(config.Markets[1]) |-> "none"]

NextMT ==
    \/ \E tok \in TokensOf(mt.market), ask \in Asks : FeedMessage(tok, ask)
    \/ OnOrderBookUpdate
    \/ MakerTick
    \/ \E through \in CancelOutcomes, accepted \in BOOLEAN : Reprice(through, accepted)
    \/ \E errs \in SUBSET TokensOf(mt.market), o \in TokensOf(mt.market) \cup {""} :
           FillCheck(errs, o)
    \/ \E o \in TokensOf(mt.market) : SweepReturn(o)
    \/ \E through \in CancelOutcomes : clearMarketBids(through)
    \/ \E id \in DOMAIN orders : Fill(id)

SpecMT == InitMT /\ [][NextMT]_vars

\* C10: a resting bid that was filled has its sweep issued no later than the
\* end of the next evaluation cycle: no fill is left unswept by a cycle that
\* began after it.
C10_SweptWithinOneCycle ==
    \A o \in DOMAIN unswept : unswept[o] # "missed"


\* the step that ends a sweep
SweepEnds == mt.pc = "sweep" /\ mt'.pc = "wait"

\* C11: when the fill of the bid of outcome J is detected, the sweep issues
\* exactly one market buy for every other outcome of the group and none for
\* J, and as the sweep ends no resting bid of the group is left in the table.
C11_SweepBuysOthersOnce ==
    [][SweepEnds =>
          /\ \A o \in TokensOf(mt.market) :
                mt.bought[o] = IF o = mt.filledOutcome THEN 0 ELSE 1
          /\ \A o \in TokensOf(mt.market) : activeBids'[mt.market][o] = NoBid]_vars

\* the maker-taker worker with Cancel calls that may fail: the callers log
\* the error and go on
NextCancel ==
    \/ \E tok \in TokensOf(mt.market), ask \in Asks : FeedMessage(tok, ask)
    \/ OnOrderBookUpdate
    \/ MakerTick
    \/ \E through \in BOOLEAN, accepted \in BOOLEAN : Reprice(through, accepted)
    \/ \E errs \in SUBSET TokensOf(mt.market), o \in TokensOf(mt.market) \cup {""} :
           FillCheck(errs, o)
    \/ \E o \in TokensOf(mt.market) : SweepReturn(o)
    \/ \E through \in BOOLEAN : clearMarketBids(through)
    \/ \E id \in DOMAIN orders : Fill(id)

SpecCancel == InitMT /\ [][NextCancel]_vars

\* C37: every order of the engine that is open on the exchange is the one
\* the resting-bid table records for its outcome, so at most one is open per
\* (market group, outcome).
C37_OpenOrderIsRecordedBid ==
    \A id \in DOMAIN orders :
        orders[id].status = "LIVE" =>
            activeBids[mt.market][orders[id].TokenID].OrderID = id

\* a sweep has bought every other outcome while bids of the group still rest
C11_Witness ==
    /\ mt.pc = "sweep"
    /\ mt.running = {}
    /\ mt.bought[mt.filledOutcome] = 0
    /\ \E o \in TokensOf(mt.market) : o # mt.filledOutcome /\ mt.bought[o] = 1
    /\ \E o \in TokensOf(mt.market) :
          /\ o # mt.filledOutcome
          /\ activeBids[mt.market][o] # NoBid


----------------------------------------------------------------------------
(* Maker-taker repricing over fixed quotes (the desired bid as a function   *)
(* of the quotes).                                                          *)

\* best asks the cache holds when the worker starts (0: no ask)
BidAsks == {0, 300, 310, 320, 620}

BidConfigs == [Markets : {<<"B">>}, MaxSpendUSDC : {0}, ExtraEdge : {10, 1400},
               WorkerAmount : {1}]

InitBid ==
    /\ config \in BidConfigs /\ IdleSvc /\ IdleCli
    /\ data \in {d \in [Tokens -> {Quote(a) : a \in BidAsks} \cup {NoQuote}] :
                    \A t \in Tokens \ TokensOf("B") : d[t] = NoQuote}
    /\ latest = data
    /\ task = [t \in CacheTasks |-> NoTask]
    /\ IdlePoll /\ IdleFeed
    /\ activeBids = [g \in Range(config.Markets) |-> [o \in TokensOf(g) |-> NoBid]]
    /\ orders = <<>>
    /\ mt = IdleMaker(config.Markets[1])
    /\ unswept = [o \in TokensOf(config.Markets[1]) |-> "none"]

NextBid ==
    \/ MakerTick
    \/ \E through \in CancelOutcomes, accepted \in BOOLEAN : Reprice(through, accepted)
    \/ FillCheck({}, "")

SpecBid == InitBid /\ [][NextBid]_vars

\* (n - 1 - extraEdge) minus the asks of the outcomes other than o
FormulaBid(g, o) ==
    (Cardinality(TokensOf(g)) - 1) * Dollar - config.ExtraEdge
        - SumAsks(TokensOf(g) \ {o}, data)

\* C12: in a tick with quotes for all n outcomes, the bid wanted for outcome
\* J is (n - 1 - extraEdge) minus the sum of the best asks of the other
\* outcomes: a bid the reprice loop places for J carries that price, and J is
\* left without a bid when that price is not above the minimum tick; asks
\* 0.30/0.31/0.32 with extraEdge 0.01 give 1.36 for the first outcome.
C12_DesiredBidFormula ==
    /\ [][mt.pc = "reprice" /\ mt' # mt =>
             LET g == mt.market
                 o == Outcomes[g][mt.j]
             IN /\ activeBids'[g][o] # NoBid /\ activeBids'[g][o] # activeBids[g][o]
                      => activeBids'[g][o].Price = FormulaBid(g, o)
                /\ FormulaBid(g, o) <= MinBid => activeBids'[g][o] = NoBid
                /\ FormulaBid(g, o) > MinBid /\ Len(orders') > Len(orders)
                      => activeBids'[g][o] =
                            [OrderID |-> Len(orders'), Price |-> FormulaBid(g, o)]]_vars
    /\ []((mt.pc = "reprice" /\ mt.j > 0) =>
             LET g == mt.market
                 o == Outcomes[g][mt.j]
             IN DesiredBid(g, o, mt.bestAsks) = FormulaBid(g, o))
    /\ []((/\ config.ExtraEdge = 10
            /\ mt.pc = "reprice"
            /\ mt.bestAsks = [b1 |-> 300, b2 |-> 310, b3 |-> 320])
              => DesiredBid("B", "b1", mt.bestAsks) = 1360)

\* the tick has read asks 0.30/0.31/0.32 and has repriced the first outcome
C12_Witness ==
    /\ config.ExtraEdge = 10
    /\ mt.pc = "reprice" /\ mt.j = 2
    /\ mt.bestAsks = [b1 |-> 300, b2 |-> 310, b3 |-> 320]


\* C26: the maker-taker engine records, and so has posted, no resting bid
\* whose price lies outside the valid range between 0 and 1: a desired bid
\* out of range is rejected.
C26_BidsWithinPriceRange ==
    \A g \in DOMAIN activeBids : \A o \in DOMAIN activeBids[g] :
        activeBids[g][o] # NoBid =>
            (activeBids[g][o].Price > 0 /\ activeBids[g][o].Price < Dollar)

\* the tick wanted a bid above 1 for the first outcome, the reprice of that
\* outcome has run, a bid within range rests for another group member or
\* none does, and no bid rests for the first outcome
C26_Witness ==
    /\ mt.pc = "reprice" /\ mt.j = 2
    /\ (Len(Outcomes[mt.market]) - 1) * Dollar - config.ExtraEdge
           - SumAsks(TokensOf(mt.market) \ {Outcomes[mt.market][1]}, data) > Dollar
    /\ activeBids[mt.market][Outcomes[mt.market][1]] = NoBid

\* C27: while the configured spend budget is zero or unset no order is
\* submitted: no taker leg, no resting maker bid and no sweep buy.
C27_NoOrderWithoutBudget ==
    config.MaxSpendUSDC <= 0 =>
        /\ \A r \in UnitRefs : UnitAt(r).pc # "legs"
        /\ posted = {}
        /\ orders = <<>>
        /\ \A o \in DOMAIN mt.bought : mt.bought[o] = 0

\* orders the engine has cancelled
Cancelled(os) == {id \in DOMAIN os : os[id].status = "CANCELED"}

\* an outcome of g has no cached quote or a zero ask
MissingQuote(g) == \E o \in TokensOf(g) : ~data[o].exists \/ data[o].BestAsk = 0

\* C25: while an outcome of the group has no cached quote or a zero ask, a
\* maker-taker tick places, replaces and cancels no resting bid and leaves
\* the resting-bid table unchanged: the cycle is skipped.
C25_SkipsCycleOnMissingQuote ==
    [][(mt.pc = "wait" /\ MissingQuote(mt.market)) =>
          /\ mt'.pc = "wait"
          /\ activeBids' = activeBids
          /\ Len(orders') = Len(orders)
          /\ Cancelled(orders') = Cancelled(orders)]_vars

\* a bid rests, an outcome has lost its ask, and a tick has run since a fill
C25_Witness ==
    /\ mt.pc = "wait"
    /\ \E o \in TokensOf(mt.market) : data[o].exists /\ data[o].BestAsk = 0
    /\ \E o \in TokensOf(mt.market) : activeBids[mt.market][o] # NoBid
    /\ \E o \in TokensOf(mt.market) : unswept[o] = "missed"

\* the step reprices the outcome at index mt.j
Repricing == mt.pc = "reprice" /\ mt' # mt

\* C21: after a tick has repriced outcome J, whatever the exchange calls
\* returned: if the desired bid exceeds the minimum tick size the table holds
\* a bid for J at exactly the desired price, otherwise it holds no bid for J.
C21_TableFollowsDesiredBid ==
    [][Repricing =>
          LET g == mt.market
              o == Outcomes[g][mt.j]
              desiredBid == DesiredBid(g, o, mt.bestAsks) IN
          IF desiredBid > MinBid
          THEN activeBids'[g][o] # NoBid /\ activeBids'[g][o].Price = desiredBid
          ELSE activeBids'[g][o] = NoBid]_vars

----------------------------------------------------------------------------
(* Maker-taker strategy with WorkerAmount workers per market group          *)
(* (startMakerTakerStrategy).  Each worker runs runMakerTakerArb on the     *)
(* shared table of resting bids; worker holds the position of each one and  *)
(* the order ids whose fill it has swept.  The quotes stay as they are at   *)
(* the start.                                                               *)

MakerConfigs == [Markets : {<<"A">>}, MaxSpendUSDC : {0}, ExtraEdge : {10},
                 WorkerAmount : {1, 2}]

IdleMakerWorker(g) == [market |-> g, pc |-> "wait", j |-> 0, bestAsks |-> <<>>,
                       filledOutcome |-> "", sweeps |-> <<>>]

\* case <-ticker.C of worker w: read the quotes
MakerTickOf(w) ==
    /\ worker[w].pc = "wait"
    /\ LET asks == BestAsksOf(worker[w].market, data) IN
       /\ asks # <<>>
       /\ worker' = [worker EXCEPT ![w].pc = "reprice", ![w].j = 1, ![w].bestAsks = asks]
    /\ UNCHANGED <<cacheVars, config, cliVars, svcVars, pollVars, arbTrigger, handler,
                   spawned, cancelled, mtVars>>

\* one round of the reprice loop of worker w
RepriceOf(w, through, accepted) ==
    /\ worker[w].pc = "reprice"
    /\ LET g == worker[w].market
           o == Outcomes[g][worker[w].j]
           desiredBid == DesiredBid(g, o, worker[w].bestAsks) IN
       /\ IF desiredBid > MinBid
          THEN updateBid(g, o, desiredBid, through, accepted)
          ELSE cancelBid(g, o, through)
       /\ worker' = IF worker[w].j < Len(Outcomes[g])
                    THEN [worker EXCEPT ![w].j = @ + 1]
                    ELSE [worker EXCEPT ![w].pc = "fillcheck", ![w].j = 0]
    /\ UNCHANGED <<cacheVars, config, cliVars, svcVars, pollVars, arbTrigger, handler,
                   spawned, cancelled, mt, unswept>>

\* checkForFilledBid of worker w; a fill found starts the sweep of the other
\* outcomes
FillCheckOf(w, errs, filledOutcome) ==
    /\ worker[w].pc = "fillcheck"
    /\ LET g == worker[w].market
           found == FilledBids(g, errs) IN
       IF found = {}
       THEN /\ filledOutcome = ""
            /\ worker' = [worker EXCEPT ![w].pc = "wait", ![w].bestAsks = <<>>,
                                        ![w].filledOutcome = ""]
       ELSE /\ filledOutcome \in found
            /\ worker' = [worker EXCEPT
                             ![w].pc = "sweep",
                             ![w].filledOutcome = filledOutcome,
                             ![w].sweeps = Append(@, activeBids[g][filledOutcome].OrderID)]
    /\ UNCHANGED <<cacheVars, config, cliVars, svcVars, pollVars, arbTrigger, handler,
                   spawned, cancelled, mtVars>>

\* the market buys of the sweep have returned (wg.Wait); clearMarketBids;
\* cooldown
SweepEndOf(w, through) ==
    /\ worker[w].pc = "sweep"
    /\ LET g == worker[w].market IN
       /\ orders' = CancelAll(orders,
                              {activeBids[g][o] : o \in TokensOf(g)} \ {NoBid}, through)
       /\ activeBids' = [activeBids EXCEPT ![g] = [o \in TokensOf(g) |-> NoBid]]
    /\ worker' = [worker EXCEPT ![w].pc = "wait", ![w].bestAsks = <<>>,
                                ![w].filledOutcome = ""]
    /\ UNCHANGED <<cacheVars, config, cliVars, svcVars, pollVars, arbTrigger, handler,
                   spawned, cancelled, mt, unswept>>

InitMakers ==
    /\ config \in MakerConfigs /\ IdleSvc /\ IdleCli /\ IdlePoll
    /\ data = [t \in Tokens |-> IF t \in TokensOf("A") THEN Quote(300) ELSE NoQuote]
    /\ latest = data
    /\ task = [t \in CacheTasks |-> NoTask]
    /\ arbTrigger = <<>>
    /\ handler = IdleHandler
    /\ worker = [w \in WorkerIds(config) |-> IdleMakerWorker(w[1])]
    /\ spawned = <<>>
    /\ cancelled = FALSE
    /\ activeBids = [g \in Range(config.Markets) |-> [o \in TokensOf(g) |-> NoBid]]
    /\ orders = <<>>
    /\ mt = IdleMaker(config.Markets[1])
    /\ unswept = [o \in TokensOf(config.Markets[1]) |-> "none"]

NextMakers ==
    \/ \E w \in DOMAIN worker : MakerTickOf(w)
    \/ \E w \in DOMAIN worker, through \in CancelOutcomes, accepted \in BOOLEAN :
           RepriceOf(w, through, accepted)
    \/ \E w \in DOMAIN worker, errs \in SUBSET TokensOf("A"), o \in TokensOf("A") \cup {""} :
           FillCheckOf(w, errs, o)
    \/ \E w \in DOMAIN worker, through \in CancelOutcomes : SweepEndOf(w, through)
    \/ \E id \in DOMAIN orders : Fill(id)

SpecMakers == InitMakers /\ [][NextMakers]_vars

\* the sweeps started for the fill of order id, over all workers
SweepsOf(id) ==
    {<<w, i>> \in (DOMAIN worker) \X (1 .. MaxOrders) :
        i \in DOMAIN worker[w].sweeps /\ worker[w].sweeps[i] = id}

\* C36: the fill of one resting bid starts at most one sweep, whichever
\* worker detects it.
C36_OneSweepPerFill ==
    \A id \in DOMAIN orders : Cardinality(SweepsOf(id)) <= 1

----------------------------------------------------------------------------
(* Websocket engine: market data service (startMarketDataUpdater, the       *)
(* keep-alive loop, verifyEmptyBooks and startPollingFallback).             *)

\* consecutive failed reconnections after which the fallback poller is due
ReconnectLimit == 2

\* tokenIDs: the outcome tokens of every configured market, in order
RECURSIVE TokenIDs(_)
TokenIDs(markets) ==
    IF markets = <<>> THEN <<>>
    ELSE Outcomes[Head(markets)] \o TokenIDs(Tail(markets))

\* startMarketDataUpdater up to the first SubscribeToMarketData: on success
\* the keep-alive loop and the verifier start, on failure the goroutine
\* becomes the fallback poller
Subscribe(ok) ==
    /\ updater.pc = "start"
    /\ IF ok
       THEN /\ wsClient' = "connected"
            /\ updater' = [updater EXCEPT !.pc = "keepalive"]
            /\ verifier' = [verifier EXCEPT !.pc = "wait"]
       ELSE /\ updater' = [updater EXCEPT !.pc = "fallback"]
            /\ UNCHANGED <<wsClient, verifier>>
    /\ UNCHANGED <<cacheVars, config, cliVars, pollVars, feedVars, mtVars, stale>>

\* messageLoop ends on a read error: isConnected = false
Disconnect ==
    /\ wsClient = "connected"
    /\ ~handler.busy
    /\ wsClient' = "disconnected"
    /\ UNCHANGED <<cacheVars, config, cliVars, pollVars, feedVars, mtVars, updater,
                   verifier, stale>>

\* keep-alive loop, case <-ticker.C: resubscribe when not connected
KeepAliveTick(ok) ==
    /\ updater.pc = "keepalive"
    /\ wsClient # "connected"
    /\ IF ok
       THEN /\ wsClient' = "connected"
            /\ updater' = [updater EXCEPT !.failures = 0]
       ELSE /\ updater' = [updater EXCEPT
                              !.failures = IF @ < ReconnectLimit THEN @ + 1 ELSE @]
            /\ UNCHANGED wsClient
    /\ UNCHANGED <<cacheVars, config, cliVars, pollVars, feedVars, mtVars, verifier, stale>>

\* returns from the keep-alive loop and leaves the connection as it is
LeaveClientOpen(c) == c

\* Client.Close(): conn.Close(), isConnected = false
CloseClient(c) == "closed"

\* keep-alive loop, case <-bot.ctx.Done(): wsClient.Close(); return
KeepAliveStop ==
    /\ updater.pc = "keepalive"
    /\ cancelled
    /\ wsClient' = CloseClient(wsClient)
    /\ updater' = [updater EXCEPT !.pc = "stopped"]
    /\ UNCHANGED <<cacheVars, config, cliVars, pollVars, feedVars, mtVars, verifier, stale>>

\* the cache after one round of the fallback poller: got[t] is the first ask
\* of the book fetched for t, tokens outside DOMAIN got had a failed call
RECURSIVE FallbackWrites(_, _, _)
FallbackWrites(ids, got, d) ==
    IF ids = <<>> THEN d
    ELSE FallbackWrites(Tail(ids), got,
                        IF Head(ids) \in DOMAIN got
                        THEN Update(d, Head(ids), Quote(got[Head(ids)]))
                        ELSE d)

\* startPollingFallback, default case: one round over every token
FallbackRound(got) ==
    /\ updater.pc = "fallback"
    /\ ~cancelled
    /\ DOMAIN got \subseteq Range(TokenIDs(config.Markets))
    /\ data' = FallbackWrites(TokenIDs(config.Markets), got, data)
    /\ latest' = FallbackWrites(TokenIDs(config.Markets), got, latest)
    /\ stale' = stale \ DOMAIN got
    /\ UNCHANGED <<task, config, cliVars, pollVars, feedVars, mtVars, wsClient, updater, verifier>>

\* startPollingFallback, case <-bot.ctx.Done(): return
FallbackStop ==
    /\ updater.pc = "fallback"
    /\ cancelled
    /\ updater' = [updater EXCEPT !.pc = "stopped"]
    /\ UNCHANGED <<cacheVars, config, cliVars, pollVars, feedVars, mtVars, wsClient,
                   verifier, stale>>

\* emptyTokens of verifyEmptyBooks: no entry, or an entry without an ask
EmptyTokens(ids, d) ==
    SelectSeq(ids, LAMBDA t : ~Get(d, t)[2] \/ Get(d, t)[1].BestAsk = 0)

\* verifyEmptyBooks, case <-ticker.C: collect the tokens to double-check
VerifierTick ==
    /\ verifier.pc = "wait"
    /\ LET empty == EmptyTokens(TokenIDs(config.Markets), data) IN
       verifier' = [pc |-> IF empty = <<>> THEN "wait" ELSE "fetch",
                    emptyTokens |-> empty]
    /\ UNCHANGED <<cacheVars, config, cliVars, pollVars, feedVars, mtVars, wsClient,
                   updater, stale>>

\* verifyEmptyBooks: GetOrderBook of the next empty token (ask 0: the call
\* failed or the book has no ask), written to the cache when it has an ask
VerifierFetch(ask) ==
    /\ verifier.pc = "fetch"
    /\ LET t == Head(verifier.emptyTokens) IN
       IF ask > 0
       THEN /\ data' = Update(data, t, Quote(ask))
            /\ latest' = [latest EXCEPT ![t] = Quote(ask)]
            /\ stale' = stale \ {t}
       ELSE UNCHANGED <<data, latest, stale>>
    /\ verifier' = IF Len(verifier.emptyTokens) = 1
                   THEN [pc |-> "wait", emptyTokens |-> <<>>]
                   ELSE [verifier EXCEPT !.emptyTokens = Tail(@)]
    /\ UNCHANGED <<task, config, cliVars, pollVars, feedVars, mtVars, wsClient, updater>>

\* verifyEmptyBooks, case <-bot.ctx.Done(): return
VerifierStop ==
    /\ verifier.pc = "wait"
    /\ cancelled
    /\ verifier' = [verifier EXCEPT !.pc = "stopped"]
    /\ UNCHANGED <<cacheVars, config, cliVars, pollVars, feedVars, mtVars, wsClient,
                   updater, stale>>

\* the staleness window of token t passes without an update of its entry
GoStale(t) ==
    /\ t \notin stale
    /\ ~(handler.busy /\ handler.AssetID = t)
    /\ stale' = stale \cup {t}
    /\ UNCHANGED <<cacheVars, config, cliVars, pollVars, feedVars, mtVars, wsClient,
                   updater, verifier>>

SvcConfigs == [Markets : {<<"A">>}, MaxSpendUSDC : {0}, WorkerAmount : {0}]

InitSvc ==
    /\ config \in SvcConfigs
    /\ IdleCli
    /\ IdleCache /\ IdlePoll /\ IdleFeed /\ IdleMT
    /\ wsClient = "none"
    /\ updater = [pc |-> "start", failures |-> 0]
    /\ verifier = [pc |-> "off", emptyTokens |-> <<>>]
    /\ stale = {}

NextSvc ==
    \/ \E ok \in BOOLEAN : Subscribe(ok)
    \/ \E tok \in Range(TokenIDs(config.Markets)), ask \in FeedAsks :
           wsClient = "connected" /\ FeedMessage(tok, ask)
    \/ OnOrderBookUpdate
    \/ Disconnect
    \/ \E ok \in BOOLEAN : KeepAliveTick(ok)
    \/ \E got \in UNION {[S -> FeedAsks] : S \in SUBSET Range(TokenIDs(config.Markets))} :
           FallbackRound(got)
    \/ VerifierTick
    \/ \E ask \in FeedAsks : VerifierFetch(ask)
    \/ \E t \in Range(TokenIDs(config.Markets)) : GoStale(t)

SpecSvc == InitSvc /\ [][NextSvc]_vars


\* C13: the fallback fetch goes to the outcomes that had no update for the
\* staleness window and to no other outcome: a pass of the verifier that
\* fetches anything fetches exactly the stale tokens.
C13_FetchesStaleOutcomeOnly ==
    [][verifier.pc = "wait" /\ verifier'.pc = "fetch"
          => Range(verifier'.emptyTokens) = stale]_vars

\* C14: after a disconnect the cached quotes stay as they were, and once
\* ReconnectLimit reconnection attempts in a row have failed the engine is
\* running the fallback poller.
C14_FallsBackAfterFailures ==
    /\ [][wsClient = "connected" /\ wsClient' = "disconnected" => data' = data]_vars
    /\ [](updater.failures >= ReconnectLimit => updater.pc = "fallback")


\* the read loop takes a price_change message for tok off the socket and
\* calls OnPriceChange, whose body is empty; handler keeps the message handled
OnPriceChange(tok) ==
    /\ wsClient = "connected"
    /\ ~handler.busy
    /\ handler' = [IdleHandler EXCEPT !.AssetID = tok, !.last = "price_change"]
    /\ UNCHANGED <<cacheVars, config, cliVars, pollVars, arbTrigger, worker, spawned,
                   cancelled, mtVars, svcVars>>

NextFeed ==
    \/ NextSvc
    \/ \E tok \in Range(TokenIDs(config.Markets)) : OnPriceChange(tok)

\* the market data service with both kinds of feed message
SpecFeed == InitSvc /\ [][NextFeed]_vars

\* the step ends the handling of a book snapshot for t
SnapshotHandled(t) == handler.busy /\ ~handler'.busy /\ handler.AssetID = t

\* the step handles a price-level change for t
ChangeHandled(t) ==
    handler' # handler /\ handler'.last = "price_change" /\ handler'.AssetID = t

\* C23: every order-book snapshot and every incremental price-level change
\* received for an outcome results in a cache write of a new quote for it:
\* after the message is handled the entry of the outcome is freshly written.
C23_EveryMessageWritesQuote ==
    [][\A t \in Tokens :
          (SnapshotHandled(t) \/ ChangeHandled(t))
              => (data'[t].exists /\ t \notin stale')]_vars

----------------------------------------------------------------------------
(* Websocket engine: shutdown of the loops after bot.cancel().              *)

\* runMakerTakerArb, case <-bot.ctx.Done(): return
MakerStop ==
    /\ mt.pc = "wait"
    /\ cancelled
    /\ mt' = [mt EXCEPT !.pc = "stopped"]
    /\ UNCHANGED <<cacheVars, config, cliVars, svcVars, pollVars, feedVars, activeBids,
                   orders, unswept>>

StopConfigs == [Markets : {<<"A">>}, MaxSpendUSDC : {0}, MinEdge : {10},
                ExtraEdge : {700}, WorkerAmount : {1}]

InitStop ==
    /\ config \in StopConfigs
    /\ IdleCli
    /\ IdleCache /\ IdlePoll
    /\ arbTrigger = <<>>
    /\ handler = IdleHandler
    /\ worker = [w \in WorkerIds(config) |-> IdleUnit(w[1])]
    /\ spawned = [s \in SpawnIds |-> FreeSlot]
    /\ cancelled = FALSE
    /\ activeBids = [g \in Range(config.Markets) |-> [o \in TokensOf(g) |-> NoBid]]
    /\ orders = <<>>
    /\ mt = IdleMaker(config.Markets[1])
    /\ unswept = [o \in TokensOf(config.Markets[1]) |-> "none"]
    /\ wsClient = "none"
    /\ updater = [pc |-> "start", failures |-> 0]
    /\ verifier = [pc |-> "off", emptyTokens |-> <<>>]
    /\ stale = {}

\* the steps by which a loop that is not at its select gets back to it
LoopProgress ==
    \/ \E w \in DOMAIN worker, rest \in UNION {[S -> FeedAsks] : S \in SUBSET Tokens} :
           Collect(<<"w", w>>, rest)
    \/ \E through \in CancelOutcomes, accepted \in BOOLEAN : Reprice(through, accepted)
    \/ FillCheck({}, "")
    \/ \E ask \in FeedAsks : VerifierFetch(ask)
    \/ \E ok \in BOOLEAN : Subscribe(ok)

NextStop ==
    \/ \E tok \in Range(TokenIDs(config.Markets)), ask \in FeedAsks :
           wsClient = "connected" /\ FeedMessage(tok, ask)
    \/ OnOrderBookUpdate
    \/ Disconnect
    \/ \E ok \in BOOLEAN : KeepAliveTick(ok)
    \/ \E got \in UNION {[S -> FeedAsks] : S \in SUBSET Range(TokenIDs(config.Markets))} :
           FallbackRound(got)
    \/ VerifierTick
    \/ \E w \in DOMAIN worker : Tick(w)
    \/ MakerTick
    \/ LoopProgress
    \/ Cancel
    \/ \E w \in DOMAIN worker : WorkerStop(w)
    \/ MakerStop
    \/ KeepAliveStop
    \/ FallbackStop
    \/ VerifierStop

SpecStop == InitStop /\ [][NextStop]_vars

\* every call in progress returns, and a select whose Done case is ready
\* again and again ends up taking it
SpecStopFair ==
    /\ SpecStop
    /\ WF_vars(LoopProgress)
    /\ \A w \in AllWorkerIds : SF_vars(w \in DOMAIN worker /\ WorkerStop(w))
    /\ SF_vars(MakerStop)
    /\ SF_vars(VerifierStop)
    /\ WF_vars(KeepAliveStop)
    /\ WF_vars(FallbackStop)

LoopsStopped ==
    /\ \A w \in DOMAIN worker : worker[w].pc = "stopped"
    /\ mt.pc = "stopped"
    /\ updater.pc = "stopped"
    /\ verifier.pc \in {"stopped", "off"}

----------------------------------------------------------------------------
(* Signals and the group they are evaluated for (two market groups).       *)

\* two groups, one taker worker each, all sharing bot.arbTrigger
SigConfigs == [Markets : {<<"A", "B">>}, MaxSpendUSDC : {Dollar},
               TakerEnabled : {TRUE}, MinEdge : {900}, DryRun : {FALSE},
               WorkerAmount : {1}, Named : {TRUE}]

InitSig ==
    /\ config \in SigConfigs /\ IdleSvc /\ IdleCli
    /\ IdleCache /\ IdlePoll /\ IdleMT
    /\ arbTrigger = <<>>
    /\ handler = IdleHandler
    /\ worker = [w \in WorkerIds(config) |-> IdleUnit(w[1])]
    /\ spawned = [s \in SpawnIds |-> FreeSlot]
    /\ cancelled = FALSE

\* asks the feed and the REST fallback deliver
SigAsks == {300}

NextSig ==
    \/ \E tok \in UNION {TokensOf(g) : g \in Range(config.Markets)}, ask \in SigAsks :
           FeedMessage(tok, ask)
    \/ OnOrderBookUpdate
    \/ \E w \in DOMAIN worker, s \in DOMAIN spawned : Signal(w, s)
    \/ \E s \in DOMAIN spawned : UnitStep(<<"s", s>>)

SpecSig == InitSig /\ [][NextSig]_vars

\* C20: a signal enqueued for outcome X is consumed by an evaluation of the
\* group that owns X: the goroutine a worker starts on receiving the signal
\* evaluates X's own group.
C20_SignalEvaluatesOwnGroup ==
    [][\A s \in SpawnIds :
          (arbTrigger # <<>> /\ arbTrigger' = Tail(arbTrigger)
             /\ spawned[s].pc = "free" /\ spawned'[s].pc = "check")
          => spawned'[s].market = TokenToMarket(Head(arbTrigger))]_vars

----------------------------------------------------------------------------
(* Feed handler: the quote taken from an order-book message.               *)
(* econ holds one message and the quote OnOrderBookUpdate builds from it.  *)

\* price levels a side of a message lists at most
MaxLevels == 2

\* level prices
BookPrices == {300, 400}

\* a side of the book as the message lists it
LevelLists == UNION {[1 .. n -> BookPrices] : n \in 0 .. MaxLevels}

\* OrderBookUpdate: the API uses bids/asks or buys/sells
BookMessages == [Asks : LevelLists, Sells : LevelLists,
                 Bids : LevelLists, Buys : LevelLists]

\* askPrice: update.Asks[0].Price, else update.Sells[0].Price, else 0
AskPrice(update) ==
    IF update.Asks # <<>> THEN update.Asks[1]
    ELSE IF update.Sells # <<>> THEN update.Sells[1]
    ELSE 0

\* data.BestBid: update.Bids[0].Price, else update.Buys[0].Price, else 0
BidPrice(update) ==
    IF update.Bids # <<>> THEN update.Bids[1]
    ELSE IF update.Buys # <<>> THEN update.Buys[1]
    ELSE 0

\* the MarketData the handler hands to cache.Update
BuildQuote ==
    /\ econ[1].built = FALSE
    /\ econ' = << [econ[1] EXCEPT !.built = TRUE,
                                  !.BestAsk = AskPrice(econ[1].update),
                                  !.BestBid = BidPrice(econ[1].update)] >>
    /\ UNCHANGED <<cacheVars, config, cliVars, svcVars, marketData, activeOrders, polls,
                   checker, exec, totalPnL, posted, feedVars, mtVars>>

InitBook ==
    /\ config = NoConfig
    /\ IdleCache /\ IdleFeed /\ IdleMT /\ IdleSvc /\ IdleCli
    /\ marketData = [t \in Tokens |-> NoQuote]
    /\ activeOrders = {} /\ polls = 0 /\ checker = <<>>
    /\ exec = <<>> /\ totalPnL = 0 /\ posted = {}
    /\ \E update \in BookMessages :
          econ = << [update |-> update, built |-> FALSE, BestAsk |-> 0, BestBid |-> 0] >>

NextBook == BuildQuote

SpecBook == InitBook /\ [][NextBook]_vars

\* the ask and bid levels a message carries, under the field name it uses
AskLevels(update) ==
    IF update.Asks # <<>> THEN Range(update.Asks) ELSE Range(update.Sells)

BidLevels(update) ==
    IF update.Bids # <<>> THEN Range(update.Bids) ELSE Range(update.Buys)

\* C22: the quote built for an order-book message has best ask equal to the
\* lowest ask price and best bid equal to the highest bid price among the
\* levels the message carries, in whatever order they are listed.
C22_BestOfAllLevels ==
    econ[1].built =>
        /\ AskLevels(econ[1].update) # {} =>
              /\ econ[1].BestAsk \in AskLevels(econ[1].update)
              /\ \A p \in AskLevels(econ[1].update) : econ[1].BestAsk <= p
        /\ BidLevels(econ[1].update) # {} =>
              /\ econ[1].BestBid \in BidLevels(econ[1].update)
              /\ \A p \in BidLevels(econ[1].update) : econ[1].BestBid >= p

----------------------------------------------------------------------------
(* Liquid outcomes: which outcomes the pre-check and the taker evaluation   *)
(* count, over any cache content.  econ holds the result of one run.       *)

\* best asks a cached quote or a REST book may carry: the handler stores
\* whatever strconv.ParseFloat made of the first level
LiquidAsks == {0 - 100, 0, 300}

\* the sums of the pre-check and the asks of the taker evaluation of group g,
\* rest being the first ask GetOrderBook returns for each empty book
CountLiquid(g, rest) ==
    /\ econ = <<>>
    /\ DOMAIN rest = Range(EmptyBooks(Outcomes[g], data))
    /\ econ' = << [market |-> g,
                   fast   |-> FastSum(Outcomes[g], data,
                                      [totalCost |-> 0, liquidCount |-> 0]),
                   asks   |-> CachedAsks(Outcomes[g], data)
                                 \o RestAsks(EmptyBooks(Outcomes[g], data), rest)] >>
    /\ UNCHANGED <<cacheVars, config, cliVars, svcVars, marketData, activeOrders, polls,
                   checker, exec, totalPnL, posted, feedVars, mtVars>>

InitLiquid ==
    /\ config = NoConfig
    /\ IdlePoll /\ IdleFeed /\ IdleMT /\ IdleSvc /\ IdleCli
    /\ data \in [Tokens -> {NoQuote} \cup {Quote(a) : a \in LiquidAsks}]
    /\ latest = data
    /\ task = [t \in CacheTasks |-> NoTask]

NextLiquid ==
    \E g \in MarketNames :
        \E rest \in UNION {[S -> LiquidAsks] : S \in SUBSET TokensOf(g)} :
            CountLiquid(g, rest)

SpecLiquid == InitLiquid /\ [][NextLiquid]_vars

\* outcomes of g with no cached quote or a cached best ask of zero or less
Illiquid(g) == {t \in TokensOf(g) : ~data[t].exists \/ data[t].BestAsk <= 0}

\* C24: an outcome with no cached quote or with a zero or negative best ask
\* is not counted among the k liquid outcomes nor added to the cost, by the
\* feed pre-check and by the taker evaluation alike.
C24_IlliquidNeverCounted ==
    econ # <<>> =>
        LET g == econ[1].market
            liquid == TokensOf(g) \ Illiquid(g) IN
        /\ econ[1].fast.liquidCount = Cardinality(liquid)
        /\ econ[1].fast.totalCost = SumAsks(liquid, data)
        /\ \A i \in DOMAIN econ[1].asks : econ[1].asks[i].Outcome \notin Illiquid(g)

----------------------------------------------------------------------------
(* Latency samples: PerformanceMetrics and the legs that record into it.    *)
(* econ holds the state of each leg and the two sample lists; a sample      *)
(* carries the leg that recorded it next to the duration.                   *)

MaxLegs == 3
Legs == 1 .. MaxLegs
Durations == {1, 2}

\* PerformanceMetrics.RecordCaptureToOrder
RecordCaptureToOrder(pm, latency) ==
    [pm EXCEPT !.captureToOrderLatencies = Append(@, latency)]

\* PerformanceMetrics.RecordOrderExecution
RecordOrderExecution(pm, duration) ==
    [pm EXCEPT !.orderExecutionTimes = Append(@, duration)]

\* the goroutine of leg l starts: it records the capture-to-order latency
\* and calls placeMarketBuy
LegStart(l, d) ==
    /\ econ[1].leg[l] = "idle"
    /\ econ' = << [RecordCaptureToOrder(econ[1], [leg |-> l, d |-> d])
                     EXCEPT !.leg[l] = "placing"] >>
    /\ UNCHANGED <<cacheVars, config, cliVars, svcVars, marketData, activeOrders, polls,
                   checker, exec, totalPnL, posted, feedVars, mtVars>>

\* placeMarketBuy of leg l: created tells whether CreateMarketOrder returned
\* an order, postOK whether PostOrder returned without error
placeMarketBuy(l, created, postOK, d) ==
    /\ econ[1].leg[l] = "placing"
    /\ econ' = << IF ~created
                  THEN [econ[1] EXCEPT !.leg[l] = "failed"]
                  ELSE [RecordOrderExecution(econ[1], [leg |-> l, d |-> d])
                          EXCEPT !.leg[l] = IF postOK THEN "succeeded" ELSE "failed"] >>
    /\ UNCHANGED <<cacheVars, config, cliVars, svcVars, marketData, activeOrders, polls,
                   checker, exec, totalPnL, posted, feedVars, mtVars>>

InitMetrics ==
    /\ config = NoConfig
    /\ IdleCache /\ IdleFeed /\ IdleMT /\ IdleSvc /\ IdleCli
    /\ marketData = [t \in Tokens |-> NoQuote]
    /\ activeOrders = {}
    /\ polls = 0
    /\ checker = <<>>
    /\ exec = <<>>
    /\ totalPnL = 0
    /\ posted = {}
    /\ econ = << [leg |-> [l \in Legs |-> "idle"],
                  captureToOrderLatencies |-> <<>>,
                  orderExecutionTimes |-> <<>>] >>

NextMetrics ==
    \E l \in Legs, d \in Durations :
        \/ LegStart(l, d)
        \/ \E created \in BOOLEAN, postOK \in BOOLEAN : placeMarketBuy(l, created, postOK, d)

SpecMetrics == InitMetrics /\ [][NextMetrics]_vars

\* the samples of list s that leg l recorded
SamplesOf(s, l) == {i \in DOMAIN s : s[i].leg = l}

\* s is an initial part of t
IsPrefix(s, t) == Len(s) <= Len(t) /\ \A i \in DOMAIN s : s[i] = t[i]

\* every step keeps the samples recorded so far, unchanged and in place
SamplesOnlyAppended ==
    [][/\ IsPrefix(econ[1].captureToOrderLatencies, econ'[1].captureToOrderLatencies)
       /\ IsPrefix(econ[1].orderExecutionTimes, econ'[1].orderExecutionTimes)]_vars

\* C29: a leg whose placeMarketBuy has returned has recorded exactly one
\* capture-to-order latency sample and exactly one order-execution sample.
C29_OneSampleOfEachPerLeg ==
    \A l \in Legs :
        econ[1].leg[l] \in {"succeeded", "failed"} =>
            /\ Cardinality(SamplesOf(econ[1].captureToOrderLatencies, l)) = 1
            /\ Cardinality(SamplesOf(econ[1].orderExecutionTimes, l)) = 1

----------------------------------------------------------------------------
(* Fallback poller: the rounds of startPollingFallback, one goroutine per   *)
(* token and round behind the semaphore.  econ holds the poller: its        *)
(* position, the round, the index of the last token spawned, the fetches in *)
(* flight, how often each token was spawned in the round and the number of  *)
(* cache.Update calls of the round (the quotes written are those of         *)
(* FallbackWrites).                                                         *)

\* capacity of the semaphore channel
PoolSize == 10

MaxTokenIDs == 11
MaxRounds == 2
PollIDs == 1 .. MaxTokenIDs

\* sem <- struct{}{} does not block
SemAlwaysFree(inflight) == TRUE

\* sem <- struct{}{} proceeds when the channel holds fewer than its capacity
SemFree(inflight) == Cardinality(inflight) < PoolSize

\* default case of the select: a round begins
RoundStart ==
    /\ econ[1].pc = "select"
    /\ ~cancelled
    /\ econ[1].round < MaxRounds
    /\ econ' = << [econ[1] EXCEPT !.pc = "spawn", !.round = @ + 1, !.next = 0,
                                  !.started = [id \in PollIDs |-> 0],
                                  !.updates = 0] >>
    /\ UNCHANGED <<cacheVars, config, cliVars, svcVars, marketData, activeOrders, polls,
                   checker, exec, totalPnL, posted, feedVars, mtVars>>

\* one pass of the range loop: wg.Add, acquire the semaphore, start the fetch
Spawn ==
    /\ econ[1].pc = "spawn"
    /\ econ[1].next < MaxTokenIDs
    /\ SemFree(econ[1].inflight)
    /\ LET tid == econ[1].next + 1 IN
       econ' = << [econ[1] EXCEPT !.next = tid,
                                  !.inflight = @ \cup {tid},
                                  !.started[tid] = @ + 1] >>
    /\ UNCHANGED <<cacheVars, config, cliVars, svcVars, marketData, activeOrders, polls,
                   checker, exec, totalPnL, posted, feedVars, mtVars>>

\* the goroutine of tid: GetOrderBook, cache.Update unless it failed, then
\* release the semaphore and wg.Done
Fetch(tid, err) ==
    /\ tid \in econ[1].inflight
    /\ econ' = << [econ[1] EXCEPT !.inflight = @ \ {tid},
                                  !.updates = IF err THEN @ ELSE @ + 1] >>
    /\ UNCHANGED <<cacheVars, config, cliVars, svcVars, marketData, activeOrders, polls,
                   checker, exec, totalPnL, posted, feedVars, mtVars>>

\* wg.Wait returns and the poller sleeps 500ms
RoundWait ==
    /\ econ[1].pc = "spawn"
    /\ econ[1].next = MaxTokenIDs
    /\ econ[1].inflight = {}
    /\ econ' = << [econ[1] EXCEPT !.pc = "select"] >>
    /\ UNCHANGED <<cacheVars, config, cliVars, svcVars, marketData, activeOrders, polls,
                   checker, exec, totalPnL, posted, feedVars, mtVars>>

\* case <-bot.ctx.Done(): return
PollerStop ==
    /\ econ[1].pc = "select"
    /\ cancelled
    /\ econ' = << [econ[1] EXCEPT !.pc = "stopped"] >>
    /\ UNCHANGED <<cacheVars, config, cliVars, svcVars, marketData, activeOrders, polls,
                   checker, exec, totalPnL, posted, feedVars, mtVars>>

InitFallback ==
    /\ config = NoConfig
    /\ IdleCache /\ IdleFeed /\ IdleMT /\ IdleSvc /\ IdleCli
    /\ marketData = [t \in Tokens |-> NoQuote]
    /\ activeOrders = {}
    /\ polls = 0
    /\ checker = <<>>
    /\ exec = <<>>
    /\ totalPnL = 0
    /\ posted = {}
    /\ econ = << [pc |-> "select", round |-> 0, next |-> 0, inflight |-> {},
                  started |-> [id \in PollIDs |-> 0], updates |-> 0] >>

NextFallback ==
    \/ RoundStart
    \/ Spawn
    \/ \E tid \in PollIDs, err \in BOOLEAN : Fetch(tid, err)
    \/ RoundWait
    \/ PollerStop
    \/ Cancel

SpecFallback == InitFallback /\ [][NextFallback]_vars

\* C30: while the fallback poller runs, at most PoolSize (10) fetches are in
\* flight, and when a round starts the round before it has fetched every
\* token exactly once and none of its fetches is still in flight.
C30_BoundedPoolAndWholeRounds ==
    /\ [](Cardinality(econ[1].inflight) <= 10)
    /\ [][(econ'[1].round # econ[1].round /\ econ[1].round > 0) =>
            /\ econ[1].inflight = {}
            /\ \A id \in PollIDs : econ[1].started[id] = 1]_vars

\* the second round is blocked on the semaphore with ten fetches in flight
C30_Witness ==
    /\ econ[1].round = 2
    /\ Cardinality(econ[1].inflight) = 10
    /\ econ[1].next = 10

----------------------------------------------------------------------------
(* Websocket client: the dispatch of one message read off the socket        *)
(* (messageLoop, handleArrayMessage, handleObjectMessage).  A JSON object   *)
(* is described by what the dispatch looks at: its event_type, whether the  *)
(* typed parse for that event_type succeeds, whether it has a string        *)
(* "market" (its "asset_id" is always the token DispatchToken), and whether *)
(* it parses as a UserUpdate.  econ holds the message and the callbacks     *)
(* made for it; an order-book callback writes the quote to the cache, the   *)
(* other callbacks of the handler do nothing.                               *)

MaxBatch == 2

\* "": no string event_type; "other": a string that no case matches
EventTypes == {"", "book", "price_change", "tick_size_change", "last_trade_price", "other"}

\* elements of an array message; one with object = FALSE is a number, string,
\* null or nested array
FeedObjects == [object : {TRUE}, event_type : EventTypes, parses : BOOLEAN,
                market : BOOLEAN, user : BOOLEAN]
NonObject == [object |-> FALSE, event_type |-> "", parses |-> FALSE,
              market |-> FALSE, user |-> FALSE]
FeedItems == FeedObjects \cup {NonObject}

\* the socket has delivered message m
Received(m) == econ = << [message |-> m, calls |-> <<>>, handled |-> FALSE] >>

\* the token every object of the message carries, and the quote the handler
\* makes of its first ask
DispatchToken == "a1"
DispatchQuote == Quote(400)

\* the callback of the case that matches the event_type
TypedCallback(eventType) ==
    CASE eventType = "book" -> "OnOrderBookUpdate"
      [] eventType = "price_change" -> "OnPriceChange"
      [] eventType = "tick_size_change" -> "OnTickSizeChange"
      [] eventType = "last_trade_price" -> "OnLastTradePrice"
      [] OTHER -> "none"

\* handleObjectMessage: the callback made for the object, "none" if none.
\* ParseRawOrderbookSummary returns no error, so the legacy branch always
\* calls OnOrderBookUpdate.
handleObjectMessage(update) ==
    IF TypedCallback(update.event_type) # "none" /\ update.parses
    THEN TypedCallback(update.event_type)
    ELSE IF update.market
         THEN "OnOrderBookUpdate"
         ELSE IF update.user THEN "OnUserUpdate" ELSE "none"

\* as handleArrayMessage, but the range loop ends at the first element that
\* is not an object
RECURSIVE handleArrayMessageUntilNonObject(_, _)
handleArrayMessageUntilNonObject(arrayData, i) ==
    IF i > Len(arrayData) \/ ~arrayData[i].object THEN <<>>
    ELSE LET cb == handleObjectMessage(arrayData[i]) IN
         (IF cb = "none" THEN <<>> ELSE << [callback |-> cb, item |-> i] >>)
            \o handleArrayMessageUntilNonObject(arrayData, i + 1)

\* handleArrayMessage, from element i on: the callbacks made, in order
RECURSIVE handleArrayMessage(_, _)
handleArrayMessage(arrayData, i) ==
    IF i > Len(arrayData) THEN <<>>
    ELSE LET cb == IF arrayData[i].object
                   THEN handleObjectMessage(arrayData[i])
                   ELSE "none" IN
         (IF cb = "none" THEN <<>> ELSE << [callback |-> cb, item |-> i] >>)
            \o handleArrayMessage(arrayData, i + 1)

\* one pass of the loop of messageLoop over the message read
ReadMessage ==
    /\ ~econ[1].handled
    /\ LET message == econ[1].message
           calls == CASE message.kind = "array" -> handleArrayMessage(message.items, 1)
                      [] message.kind = "object" ->
                           LET cb == handleObjectMessage(message.items[1]) IN
                           IF cb = "none" THEN <<>>
                           ELSE << [callback |-> cb, item |-> 1] >>
                      [] OTHER -> <<>>
           written == \E k \in DOMAIN calls : calls[k].callback = "OnOrderBookUpdate"
       IN /\ econ' = << [econ[1] EXCEPT !.calls = calls, !.handled = TRUE] >>
          /\ data' = IF written THEN Update(data, DispatchToken, DispatchQuote)
                                ELSE data
          /\ latest' = IF written THEN Update(latest, DispatchToken, DispatchQuote)
                                  ELSE latest
    /\ UNCHANGED <<task, config, cliVars, svcVars, marketData, activeOrders, polls,
                   checker, exec, totalPnL, posted, feedVars, mtVars>>

InitDispatch ==
    /\ config = NoConfig
    /\ IdleFeed /\ IdleMT /\ IdleSvc /\ IdleCli
    /\ marketData = [t \in Tokens |-> NoQuote]
    /\ activeOrders = {}
    /\ polls = 0
    /\ checker = <<>>
    /\ exec = <<>>
    /\ totalPnL = 0
    /\ posted = {}
    /\ \E q \in {NoQuote, Quote(300)} :
          data = [t \in Tokens |-> IF t = DispatchToken THEN q ELSE NoQuote]
    /\ latest = data
    /\ task = [t \in CacheTasks |-> NoTask]
    /\ \/ \E k \in {"PONG", "garbage"} : Received([kind |-> k, items |-> <<>>])
       \/ \E o \in FeedObjects : Received([kind |-> "object", items |-> <<o>>])
       \/ \E n \in 0 .. MaxBatch : \E a \in [1 .. n -> FeedItems] :
              Received([kind |-> "array", items |-> a])

NextDispatch == ReadMessage

SpecDispatch == InitDispatch /\ [][NextDispatch]_vars

\* C31: the callbacks made for an array message are those a standalone
\* message of each object element gets, one per element at most, in array
\* order; elements that are not objects get none and stop nothing.
C31_BatchDispatchedInOrder ==
    (econ[1].handled /\ econ[1].message.kind = "array") =>
        LET items == econ[1].message.items
            calls == econ[1].calls IN
        /\ \A i \in DOMAIN items :
              LET made == {k \in DOMAIN calls : calls[k].item = i} IN
              IF items[i].object /\ handleObjectMessage(items[i]) # "none"
              THEN /\ Cardinality(made) = 1
                   /\ \A k \in made : calls[k].callback = handleObjectMessage(items[i])
              ELSE made = {}
        /\ \A k \in DOMAIN calls : calls[k].item \in DOMAIN items
        /\ \A k, l \in DOMAIN calls : k < l => calls[k].item < calls[l].item

\* an array whose first element is not an object and whose second is one
\* that gets a callback
C31_Witness ==
    /\ econ[1].handled
    /\ econ[1].message.kind = "array"
    /\ Len(econ[1].message.items) = 2
    /\ ~econ[1].message.items[1].object
    /\ econ[1].message.items[2].object
    /\ Len(econ[1].calls) = 1

\* C40: an object whose event_type is a string no case matches, or a book
\* object whose parse fails, gets no OnOrderBookUpdate callback and leaves
\* the cached quote of its token as it was; no object gets two callbacks.
C40_UnrecognizedNeverDelivered ==
    (econ[1].handled /\ econ[1].message.kind = "object") =>
        LET update == econ[1].message.items[1]
            calls == econ[1].calls IN
        /\ Len(calls) <= 1
        /\ (update.event_type = "other" \/ (update.event_type = "book" /\ ~update.parses)) =>
              /\ \A k \in DOMAIN calls : calls[k].callback # "OnOrderBookUpdate"
              /\ data[DispatchToken] \in {NoQuote, Quote(300)}

----------------------------------------------------------------------------
(* Leg orders: the orders one execution submits for a two-outcome           *)
(* opportunity of market A, in the polling engine (OrderArgs) and in the    *)
(* websocket taker (MarketOrderArgs).  The quotes are in marketData and in  *)
(* the cache; econ holds the size of each best ask, the engine that         *)
(* executed and its orders.  The amount and the price of a market order are *)
(* in hundred-thousandths of a dollar.                                      *)

\* best asks of a1 (every price of the 0.001 grid) and of a2
LegAsks == [a1 : 1 .. (Dollar - 1), a2 : {300, 600}]

\* sizes of the best-ask levels, in shares
LegSizes == {5, 100}

\* placeMarketBuy: the MarketOrderArgs built from (tokenID, price, size)
MarketOrderArgs(tokenID, price, size) ==
    [TokenID |-> tokenID, Price |-> 101 * price, Amount |-> size * (101 * price)]

\* executeArbitrageParallel: the OrderArgs of the leg for outcome md
OrderArgs(g, md) ==
    [TokenID |-> FindToken(Outcomes[g], md.OutcomeName, marketData),
     Price |-> md.BestAsk, Size |-> Shares(md.BestAsk)]

\* the polling engine executes the opportunity of market A
PollingLegs ==
    /\ econ[1].engine = ""
    /\ LET opps == checkArbitrageForMarket("A", marketData, config) IN
       /\ opps # <<>>
       /\ ShouldLaunch(opps[1])
       /\ econ' = << [econ[1] EXCEPT
                        !.engine = "polling",
                        !.orders = [i \in DOMAIN opps[1].Outcomes |->
                                       OrderArgs("A", opps[1].Outcomes[i])]] >>
    /\ UNCHANGED <<cacheVars, config, cliVars, svcVars, marketData, activeOrders, polls,
                   checker, exec, totalPnL, posted, feedVars, mtVars>>

\* the websocket taker evaluates market A and executes
TakerLegs ==
    /\ econ[1].engine = ""
    /\ config.MaxSpendUSDC > 0
    /\ LET asks == CachedAsks(Outcomes["A"], data) IN
       /\ ShouldExecute(asks)
       /\ econ' = << [econ[1] EXCEPT
                        !.engine = "websocket",
                        !.orders = [i \in DOMAIN asks |->
                                       MarketOrderArgs(asks[i].Outcome, asks[i].Price,
                                                       econ[1].BestAskSize[asks[i].Outcome])]] >>
    /\ UNCHANGED <<cacheVars, config, cliVars, svcVars, marketData, activeOrders, polls,
                   checker, exec, totalPnL, posted, feedVars, mtVars>>

InitLegs ==
    /\ config = [Markets |-> <<"A">>, MaxSpendUSDC |-> Dollar, TakerEnabled |-> TRUE,
                 MinEdge |-> 100, DryRun |-> FALSE, WorkerAmount |-> 1, Named |-> TRUE]
    /\ IdleFeed /\ IdleMT /\ IdleSvc /\ IdleCli
    /\ \E ask \in LegAsks :
          marketData = [t \in Tokens |-> IF t \in TokensOf("A") THEN Quote(ask[t])
                                                               ELSE NoQuote]
    /\ data = marketData
    /\ latest = data
    /\ task = [t \in CacheTasks |-> NoTask]
    /\ activeOrders = {}
    /\ polls = 0
    /\ checker = <<>>
    /\ exec = <<>>
    /\ totalPnL = 0
    /\ posted = {}
    /\ \E size \in [TokensOf("A") -> LegSizes] :
          econ = << [BestAskSize |-> size, engine |-> "", orders |-> <<>>] >>

NextLegs == PollingLegs \/ TakerLegs

SpecLegs == InitLegs /\ [][NextLegs]_vars

\* the number of shares an order of the execution buys
SharesOf(order) ==
    IF econ[1].engine = "polling" THEN order.Size ELSE order.Amount \div order.Price

RECURSIVE TotalAmount(_)
TotalAmount(os) ==
    IF os = <<>> THEN 0 ELSE Head(os).Amount + TotalAmount(Tail(os))

\* C32: every order of a polling execution is for shares times price of at
\* least one dollar.
C32_NotionalAtLeastOneDollar ==
    econ[1].engine = "polling" =>
        \A i \in DOMAIN econ[1].orders :
            econ[1].orders[i].Size * econ[1].orders[i].Price >= Dollar

\* C33: the orders of one execution all buy the same number of shares.
C33_SameSharesEveryLeg ==
    \A i, j \in DOMAIN econ[1].orders :
        SharesOf(econ[1].orders[i]) = SharesOf(econ[1].orders[j])

\* C34: the amounts of the orders of one taker execution add up to at most
\* MaxSpendUSDC.
C34_AmountsWithinBudget ==
    econ[1].engine = "websocket" =>
        TotalAmount(econ[1].orders) <= 100 * config.MaxSpendUSDC

----------------------------------------------------------------------------
(* Websocket client: connections and read loops of one Client object        *)
(* (connectToChannel, messageLoop, Close).  econ holds the Client: c.conn    *)
(* as the number of the connection (0: nil), c.isConnected, whether Close   *)
(* was called, the state of every connection dialled, and the read loop     *)
(* started with each.                                                       *)

MaxConnects == 3

\* conn.Close() on connection id
CloseConn(status, id) ==
    IF id # 0 /\ status[id] = "open" THEN [status EXCEPT ![id] = "closed"] ELSE status

\* connectToChannel after a successful dial (SubscribeToMarket and
\* SubscribeToUser call it first)
connectToChannel ==
    /\ Len(econ[1].status) < MaxConnects
    /\ LET c == econ[1]
           id == Len(c.status) + 1 IN
       econ' = << [c EXCEPT !.status = Append(CloseConn(c.status, c.conn), "open"),
                            !.conn = id,
                            !.isConnected = TRUE,
                            !.loop = Append(@, [pc |-> "top", conn |-> 0])] >>
    /\ UNCHANGED <<cacheVars, config, cliVars, svcVars, marketData, activeOrders, polls,
                   checker, exec, totalPnL, posted, feedVars, mtVars>>

\* messageLoop l at the select: return when the context is done or c.conn is
\* nil, otherwise read from c.conn
LoopTop(l) ==
    /\ econ[1].loop[l].pc = "top"
    /\ econ' = << [econ[1] EXCEPT
                     !.loop[l] = IF econ[1].closed \/ econ[1].conn = 0
                                 THEN [pc |-> "defer", conn |-> 0]
                                 ELSE [pc |-> "read", conn |-> econ[1].conn]] >>
    /\ UNCHANGED <<cacheVars, config, cliVars, svcVars, marketData, activeOrders, polls,
                   checker, exec, totalPnL, posted, feedVars, mtVars>>

\* conn.ReadMessage of loop l returns: a message while the connection is
\* open, an error once it is closed or has failed
LoopRead(l) ==
    /\ econ[1].loop[l].pc = "read"
    /\ econ' = << [econ[1] EXCEPT
                     !.loop[l].pc = IF econ[1].status[econ[1].loop[l].conn] = "open"
                                    THEN "top" ELSE "defer"] >>
    /\ UNCHANGED <<cacheVars, config, cliVars, svcVars, marketData, activeOrders, polls,
                   checker, exec, totalPnL, posted, feedVars, mtVars>>

\* the deferred function of messageLoop
LoopDefer(l) ==
    /\ econ[1].loop[l].pc = "defer"
    /\ econ' = << [econ[1] EXCEPT !.isConnected = FALSE,
                                  !.status = CloseConn(@, econ[1].conn),
                                  !.loop[l].pc = "done"] >>
    /\ UNCHANGED <<cacheVars, config, cliVars, svcVars, marketData, activeOrders, polls,
                   checker, exec, totalPnL, posted, feedVars, mtVars>>

\* Client.Close
ClientClose ==
    /\ ~econ[1].closed
    /\ econ' = << [econ[1] EXCEPT !.closed = TRUE,
                                  !.status = CloseConn(@, econ[1].conn),
                                  !.conn = 0,
                                  !.isConnected = IF econ[1].conn # 0 THEN FALSE ELSE @] >>
    /\ UNCHANGED <<cacheVars, config, cliVars, svcVars, marketData, activeOrders, polls,
                   checker, exec, totalPnL, posted, feedVars, mtVars>>

\* connection id fails: the peer or the network ends it
ConnFail(id) ==
    /\ econ[1].status[id] = "open"
    /\ econ' = << [econ[1] EXCEPT !.status[id] = "failed"] >>
    /\ UNCHANGED <<cacheVars, config, cliVars, svcVars, marketData, activeOrders, polls,
                   checker, exec, totalPnL, posted, feedVars, mtVars>>

InitConn ==
    /\ config = NoConfig
    /\ IdleCache /\ IdleFeed /\ IdleMT /\ IdleSvc /\ IdleCli
    /\ marketData = [t \in Tokens |-> NoQuote]
    /\ activeOrders = {}
    /\ polls = 0
    /\ checker = <<>>
    /\ exec = <<>>
    /\ totalPnL = 0
    /\ posted = {}
    /\ econ = << [conn |-> 0, isConnected |-> FALSE, closed |-> FALSE,
                  status |-> <<>>, loop |-> <<>>] >>

NextConn ==
    \/ connectToChannel
    \/ \E l \in DOMAIN econ[1].loop : LoopTop(l)
    \/ \E l \in DOMAIN econ[1].loop : LoopRead(l)
    \/ \E l \in DOMAIN econ[1].loop : LoopDefer(l)
    \/ ClientClose
    \/ \E id \in DOMAIN econ[1].status : ConnFail(id)

SpecConn == InitConn /\ [][NextConn]_vars

\* C39: while Close has not been called and the current connection has not
\* failed, the client is connected and its current connection is open,
\* however many connections came before it.
C39_ResubscribeStaysConnected ==
    (/\ econ[1].conn # 0
     /\ ~econ[1].closed
     /\ econ[1].status[econ[1].conn] # "failed") =>
        /\ econ[1].isConnected
        /\ econ[1].status[econ[1].conn] = "open"

----------------------------------------------------------------------------
(* Order counters: ordersPlaced, ordersSucceeded and ordersFailed over the  *)
(* legs of one execution, in the polling engine (executeArbitrageParallel)  *)
(* and in the websocket engine (placeMarketBuy).  econ holds the engine,    *)
(* the state of each leg and the three counters.                            *)

NoStats == [ordersPlaced |-> 0, ordersSucceeded |-> 0, ordersFailed |-> 0]

\* the error a leg ends with
LegError(found, created) ==
    IF ~found THEN "no token" ELSE IF ~created THEN "create error" ELSE "post error"

\* a leg goroutine of executeArbitrageParallel: found is whether the token
\* lookup succeeds, created and postOK whether CreateOrder and PostOrder do
PollingLegResult(i, found, created, postOK) ==
    /\ econ[1].engine = "polling"
    /\ econ[1].leg[i] = "run"
    /\ econ' = << IF found /\ created /\ postOK
                  THEN [econ[1] EXCEPT !.leg[i] = "ok",
                                       !.stats.ordersPlaced = @ + 1,
                                       !.stats.ordersSucceeded = @ + 1]
                  ELSE [econ[1] EXCEPT !.leg[i] = LegError(found, created)] >>
    /\ UNCHANGED <<cacheVars, config, cliVars, svcVars, marketData, activeOrders, polls,
                   checker, exec, totalPnL, posted, feedVars, mtVars>>

\* the collector of executeArbitrageParallel after wg.Wait: ordersFailed is
\* raised once for every failed result
PollingCollect ==
    /\ econ[1].engine = "polling"
    /\ ~econ[1].finished
    /\ \A i \in Legs : econ[1].leg[i] # "run"
    /\ econ' = << [econ[1] EXCEPT
                     !.finished = TRUE,
                     !.stats.ordersFailed =
                         @ + Cardinality({i \in Legs : econ[1].leg[i] \notin {"run", "ok"}})] >>
    /\ UNCHANGED <<cacheVars, config, cliVars, svcVars, marketData, activeOrders, polls,
                   checker, exec, totalPnL, posted, feedVars, mtVars>>

\* placeMarketBuy of leg i of a websocket execution, with its counters
TakerLegResult(i, created, postOK) ==
    /\ econ[1].engine = "websocket"
    /\ econ[1].leg[i] = "run"
    /\ econ' = << IF created /\ postOK
                  THEN [econ[1] EXCEPT !.leg[i] = "ok",
                                       !.stats.ordersPlaced = @ + 1,
                                       !.stats.ordersSucceeded = @ + 1]
                  ELSE [econ[1] EXCEPT !.leg[i] = LegError(TRUE, created),
                                       !.stats.ordersPlaced = @ + 1,
                                       !.stats.ordersFailed = @ + 1] >>
    /\ UNCHANGED <<cacheVars, config, cliVars, svcVars, marketData, activeOrders, polls,
                   checker, exec, totalPnL, posted, feedVars, mtVars>>

\* wg.Wait of checkArbitrage returns
TakerWait ==
    /\ econ[1].engine = "websocket"
    /\ ~econ[1].finished
    /\ \A i \in Legs : econ[1].leg[i] # "run"
    /\ econ' = << [econ[1] EXCEPT !.finished = TRUE] >>
    /\ UNCHANGED <<cacheVars, config, cliVars, svcVars, marketData, activeOrders, polls,
                   checker, exec, totalPnL, posted, feedVars, mtVars>>

InitStats ==
    /\ config = NoConfig
    /\ IdleCache /\ IdleFeed /\ IdleMT /\ IdleSvc /\ IdleCli
    /\ marketData = [t \in Tokens |-> NoQuote]
    /\ activeOrders = {}
    /\ polls = 0
    /\ checker = <<>>
    /\ exec = <<>>
    /\ totalPnL = 0
    /\ posted = {}
    /\ \E e \in {"polling", "websocket"} :
          econ = << [engine |-> e, leg |-> [i \in Legs |-> "run"],
                     finished |-> FALSE, stats |-> NoStats] >>

NextStats ==
    \/ \E i \in Legs, found \in BOOLEAN, created \in BOOLEAN, postOK \in BOOLEAN :
           PollingLegResult(i, found, created, postOK)
    \/ PollingCollect
    \/ \E i \in Legs, created \in BOOLEAN, postOK \in BOOLEAN :
           TakerLegResult(i, created, postOK)
    \/ TakerWait

SpecStats == InitStats /\ [][NextStats]_vars

\* C38: when the execution has finished, ordersPlaced equals ordersSucceeded
\* plus ordersFailed, and every leg is counted once as placed and once as
\* succeeded or failed.
C38_PlacedIsSucceededPlusFailed ==
    econ[1].finished =>
        /\ econ[1].stats.ordersPlaced
              = econ[1].stats.ordersSucceeded + econ[1].stats.ordersFailed
        /\ econ[1].stats.ordersPlaced = Cardinality(Legs)

----------------------------------------------------------------------------
(* Client library: authentication mode and order creation (pkg/client).    *)
(* A client is modelled by whether it holds a signer and credentials, its  *)
(* mode, and its tick-size cache for the one token the orders are for.     *)
(* Order prices are integers in hundred-thousandths.                       *)

IsTickSizeSmaller(tick1, tick2) == ParseFloat(tick1) < ParseFloat(tick2)

\* L2 whenever credentials are present, with or without a signer
getClientModeByCreds(c) ==
    IF c.creds THEN L2 ELSE IF c.signer THEN L1 ELSE L0

getClientMode(c) ==
    IF c.signer /\ c.creds THEN L2
    ELSE IF c.signer THEN L1
    ELSE L0

\* NewClobClient(host, chainID, privateKey, creds, ...) with a private key
\* that is empty or parses; the call replaces the client under study
NewClobClient(privateKey, creds) ==
    LET c == [signer |-> privateKey, creds |-> creds, mode |-> L0,
              tickSizes |-> ""] IN
    /\ client' = [c EXCEPT !.mode = getClientMode(c)]
    /\ call' = [NoCall EXCEPT !.op = "NewClobClient"]

SetApiCreds(creds) ==
    LET c == [client EXCEPT !.creds = creds] IN
    /\ client' = [c EXCEPT !.mode = getClientMode(c)]
    /\ call' = [NoCall EXCEPT !.op = "SetApiCreds"]

assertLevel1Auth(c) == IF c.mode < L1 THEN "L1AuthUnavailable" ELSE ""
assertLevel2Auth(c) == IF c.mode < L2 THEN "L2AuthUnavailable" ELSE ""

Level1Ops == {"CreateApiKey", "DeriveApiKey", "CreateMarketOrder", "CreateOrder"}
Level2Ops == {"GetApiKeys", "PostOrder", "Cancel", "GetOrders"}

\* a Level-1 operation other than CreateOrder: the check, then the request
Level1Op(op, failed) ==
    /\ op \in Level1Ops \ {"CreateOrder"}
    /\ call' = [NoCall EXCEPT !.op = op,
                  !.err = IF assertLevel1Auth(client) # ""
                          THEN assertLevel1Auth(client)
                          ELSE IF failed THEN "RequestFailed" ELSE ""]
    /\ UNCHANGED client

Level2Op(op, failed) ==
    /\ op \in Level2Ops
    /\ call' = [NoCall EXCEPT !.op = op,
                  !.err = IF assertLevel2Auth(client) # ""
                          THEN assertLevel2Auth(client)
                          ELSE IF failed THEN "RequestFailed" ELSE ""]
    /\ UNCHANGED client

\* GetTickSize: the cached value, else what the server answers (served is
\* "" when the request fails); a fetched value is cached
GetTickSize(c, served) == IF c.tickSizes # "" THEN c.tickSizes ELSE served

\* resolveTickSize: <<tick size, error>>
resolveTickSize(minTickSize, tickSize) ==
    IF minTickSize = "" THEN <<"", "RequestFailed">>
    ELSE IF tickSize # ""
         THEN (IF IsTickSizeSmaller(tickSize, minTickSize)
               THEN <<"", "InvalidTickSize">>
               ELSE <<tickSize, "">>)
         ELSE <<minTickSize, "">>

\* ClobClient.CreateOrder(orderArgs, options): price is orderArgs.Price,
\* tickSize is options.TickSize ("" when not given), served is the server's
\* minimum tick size, built is whether the order builder signed the order
CreateOrder(price, tickSize, served, built) ==
    LET minTickSize == GetTickSize(client, served)
        resolved    == resolveTickSize(minTickSize, tickSize)
        r == [NoCall EXCEPT !.op = "CreateOrder", !.price = price]
    IN
    IF assertLevel1Auth(client) # ""
    THEN /\ call' = [r EXCEPT !.err = assertLevel1Auth(client)]
         /\ UNCHANGED client
    ELSE /\ client' = [client EXCEPT !.tickSizes = minTickSize]
         /\ call' =
              IF resolved[2] # "" THEN [r EXCEPT !.err = resolved[2]]
              ELSE IF ~PriceValid(price, resolved[1])
                   THEN [r EXCEPT !.tickSize = resolved[1],
                                  !.err = "InvalidPrice"]
                   ELSE [r EXCEPT !.tickSize = resolved[1],
                                  !.err = IF built THEN "" ELSE "BuilderError",
                                  !.signed = built]

\* order prices tried: 0, 0.005, 0.01, 0.1, 0.5, 0.50005, 0.555, 0.9,
\* 0.99, 0.995, 1.0
OrderPrices == {0, 500, 1000, 10000, 50000, 50005, 55500, 90000, 99000,
                99500, One}

InitClient ==
    /\ config = NoConfig
    /\ IdleCache /\ IdlePoll /\ IdleFeed /\ IdleMT /\ IdleSvc
    /\ call = [NoCall EXCEPT !.op = "NewClobClient"]
    /\ \E privateKey \in BOOLEAN, creds \in BOOLEAN :
         LET c == [signer |-> privateKey, creds |-> creds, mode |-> L0,
                   tickSizes |-> ""] IN
         client = [c EXCEPT !.mode = getClientMode(c)]

nonClientVars == <<cacheVars, config, pollVars, feedVars, mtVars, svcVars>>

NextClient ==
    \/ \E privateKey \in BOOLEAN, creds \in BOOLEAN :
           NewClobClient(privateKey, creds) /\ UNCHANGED nonClientVars
    \/ \E creds \in BOOLEAN : SetApiCreds(creds) /\ UNCHANGED nonClientVars
    \/ \E op \in Level1Ops, failed \in BOOLEAN :
           Level1Op(op, failed) /\ UNCHANGED nonClientVars
    \/ \E op \in Level2Ops, failed \in BOOLEAN :
           Level2Op(op, failed) /\ UNCHANGED nonClientVars
    \/ \E price \in OrderPrices, tickSize \in TickSizes \cup {""},
          served \in TickSizes \cup {""}, built \in BOOLEAN :
           CreateOrder(price, tickSize, served, built) /\ UNCHANGED nonClientVars

SpecClient == InitClient /\ [][NextClient]_vars

\* the mode a client with these fields is documented to have
ModeOf(c) ==
    IF c.signer /\ c.creds THEN L2 ELSE IF c.signer THEN L1 ELSE L0

\* what a step that calls a Level-1 or a Level-2 operation returns
AuthChecked ==
    /\ (call' # call /\ call'.op \in Level1Ops) =>
           ((call'.err = "L1AuthUnavailable") <=> client.mode \notin {L1, L2})
    /\ (call' # call /\ call'.op \in Level2Ops) =>
           ((call'.err = "L2AuthUnavailable") <=> client.mode # L2)

\* C17: after any sequence of NewClobClient and SetApiCreds calls the mode is
\* L2 exactly when a signer and credentials are both present, L1 when only a
\* signer is present and L0 otherwise; a Level-1 operation is refused with
\* its authentication error exactly outside modes L1 and L2, a Level-2
\* operation exactly outside mode L2.
C17_ModeFollowsSignerAndCreds ==
    [](client.mode = ModeOf(client)) /\ [][AuthChecked]_vars

\* SetApiCreds gave a client with a signer its credentials and a Level-2
\* operation was then accepted
C17_Witness ==
    /\ client.signer /\ client.creds /\ client.mode = L2
    /\ call.op \in Level2Ops
    /\ call.err # "L2AuthUnavailable"

\* the price is a whole multiple of the tick between one tick and 1 - tick
WholeMultiple(price, tickSize) ==
    LET tick == ParseFloat(tickSize) IN
    price >= tick /\ price <= One - tick /\ price % tick = 0

\* C18: CreateOrder signs an order only if its price is at least one tick,
\* at most 1 minus one tick and a whole multiple of the resolved tick size.
C18_SignsOnlyValidPrices ==
    (call.op = "CreateOrder" /\ call.signed) =>
        WholeMultiple(call.price, call.tickSize)

=============================================================================
